---- MODULE Spec2Model ----
(***************************************************************************)
(* State-machine model of the compatibility-checker HTTP application:      *)
(* the AI status probe (app/ai_status.py), the AI service                  *)
(* (app/services/ai.py), the review routes with their two in-memory caches *)
(* (app/routes/review.py) and the temp-directory life cycle of the file    *)
(* extractor (app/services/file_extractor.py).                             *)
(*                                                                         *)
(* Optional[T] values are sequences of length <= 1: <<>> is None and <<x>> *)
(* is the value x.  Wall-clock time is an integer number of seconds.       *)
(***************************************************************************)
EXTENDS Integers, Sequences, FiniteSets, TLC

VARIABLES
    now,                \* time.time(), whole seconds
    openai_installed,   \* the openai package imports (deps.OpenAI is not None)
    env_api_key,        \* os.environ["TOGETHER_API_KEY"], raw
    status_cache,       \* ai_status._status_cache
    cache_timestamp,    \* ai_status._cache_timestamp
    last_probe,         \* history: <<>> or <<[time, status]>> of the last completed live probe
    fs,                 \* the files on disk: absolute path -> <<>> (absent) or <<content>>
    results_cache,      \* routes/review._results_cache: file_path -> entry, a dict
    last_done,          \* history: absolute path -> <<>> or <<[time, result]>> of the last completed _analyze_file run
    multi_report_cache, \* routes/review._multi_report_cache: report_id -> entry, a dict
    rendered,           \* history: report_id -> [time, text] of the results page rendered with it
    next_report_id,     \* the number of uuid4 report ids drawn so far
    tmp_dirs,           \* the temp directories (tempfile.mkdtemp) that exist on disk
    op                  \* the last finished call/request: its inputs, its result and what it called

envVars == <<openai_installed, env_api_key>>
statusVars == <<status_cache, cache_timestamp, last_probe>>
reviewVars == <<fs, results_cache, last_done>>
uploadVars == <<multi_report_cache, rendered, next_report_id, tmp_dirs>>
vars == <<now, envVars, statusVars, reviewVars, uploadVars, op>>

None == <<>>
Some(x) == <<x>>

----------------------------------------------------------------------------
(* Bounds of the model *)

MaxStatusTime == 75

\* Clock steps used with the 30 s status cache: 15 + 15 hits the TTL exactly.
StatusTicks == {10, 15}

----------------------------------------------------------------------------
(* app/config.py *)

\* Raw values of TOGETHER_API_KEY: `spaces` surrounding whitespace characters,
\* `chars` characters of key text, `placeholder` when the text starts with
\* "your_api_key" (12 characters, so chars >= 12).
EnvKeys ==
    { [spaces |-> 0, chars |-> 0,  placeholder |-> FALSE],
      [spaces |-> 2, chars |-> 0,  placeholder |-> FALSE],
      [spaces |-> 0, chars |-> 9,  placeholder |-> FALSE],
      [spaces |-> 1, chars |-> 10, placeholder |-> FALSE],
      [spaces |-> 0, chars |-> 17, placeholder |-> TRUE],
      [spaces |-> 0, chars |-> 40, placeholder |-> FALSE] }

\* os.environ.get("TOGETHER_API_KEY", "").strip(): the surrounding whitespace goes.
get_together_api_key(raw) == [chars |-> raw.chars, placeholder |-> raw.placeholder]

get_together_model == "deepseek-ai/DeepSeek-V3.1"

----------------------------------------------------------------------------
(* app/ai_status.py *)

STATUS_CACHE_TTL == 30

\* What the live 1-token completion does: it succeeds, or it throws an error
\* whose text contains "401"/"Unauthorized"/"Invalid" (inv) and/or "timeout" (to).
ProbeOutcomes ==
    { [ok |-> TRUE, inv |-> FALSE, to |-> FALSE] } \cup
    { [ok |-> FALSE, inv |-> i, to |-> t] : i \in BOOLEAN, t \in BOOLEAN }

BaseStatus ==
    [available |-> FALSE, reason |-> "", api_key_set |-> FALSE,
     openai_available |-> FALSE, model |-> get_together_model]

CheapReasons ==
    { "openai package not installed",
      "TOGETHER_API_KEY not set in .env",
      "TOGETHER_API_KEY appears invalid (too short)",
      "TOGETHER_API_KEY not configured (still using placeholder)" }

\* The status after the live probe with outcome po (lines 56-74).
ProbedStatus(po) ==
    LET s == [BaseStatus EXCEPT !.openai_available = TRUE, !.api_key_set = TRUE]
    IN  IF po.ok THEN [s EXCEPT !.available = TRUE, !.reason = "AI features available"]
        ELSE IF po.inv THEN [s EXCEPT !.reason = "TOGETHER_API_KEY is invalid or expired"]
        ELSE IF po.to THEN [s EXCEPT !.reason = "API request timed out (check network)"]
        ELSE [s EXCEPT !.reason = "API test failed"]

\* A variant of get_ai_status that re-runs the cheap checks before it consults
\* the cache.
get_ai_status_cheap_first(cache, ts, t, lib, raw, po) ==
    LET key == get_together_api_key(raw)
        keep(s) == [ret |-> s, cache |-> cache, ts |-> ts, probes |-> 0]
    IN  IF ~lib
        THEN keep([BaseStatus EXCEPT !.reason = "openai package not installed"])
        ELSE IF key.chars = 0
        THEN keep([BaseStatus EXCEPT !.openai_available = TRUE,
                                     !.reason = "TOGETHER_API_KEY not set in .env"])
        ELSE IF key.chars < 10
        THEN keep([BaseStatus EXCEPT !.openai_available = TRUE, !.api_key_set = TRUE,
                       !.reason = "TOGETHER_API_KEY appears invalid (too short)"])
        ELSE IF key.placeholder
        THEN keep([BaseStatus EXCEPT !.openai_available = TRUE, !.api_key_set = TRUE,
                       !.reason = "TOGETHER_API_KEY not configured (still using placeholder)"])
        ELSE IF cache # None /\ (t - ts) < STATUS_CACHE_TTL
        THEN keep(cache[1])
        ELSE [ret |-> ProbedStatus(po), cache |-> Some(ProbedStatus(po)), ts |-> t, probes |-> 1]

\* A variant of get_ai_status that also caches the missing-key result.
get_ai_status_caches_cheap(cache, ts, t, lib, raw, po) ==
    LET key == get_together_api_key(raw)
        keep(s) == [ret |-> s, cache |-> cache, ts |-> ts, probes |-> 0]
        nokey == [BaseStatus EXCEPT !.openai_available = TRUE,
                                    !.reason = "TOGETHER_API_KEY not set in .env"]
    IN  IF cache # None /\ (t - ts) < STATUS_CACHE_TTL
        THEN keep(cache[1])
        ELSE IF ~lib
        THEN keep([BaseStatus EXCEPT !.reason = "openai package not installed"])
        ELSE IF key.chars = 0
        THEN [ret |-> nokey, cache |-> Some(nokey), ts |-> t, probes |-> 0]
        ELSE IF key.chars < 10
        THEN keep([BaseStatus EXCEPT !.openai_available = TRUE, !.api_key_set = TRUE,
                       !.reason = "TOGETHER_API_KEY appears invalid (too short)"])
        ELSE IF key.placeholder
        THEN keep([BaseStatus EXCEPT !.openai_available = TRUE, !.api_key_set = TRUE,
                       !.reason = "TOGETHER_API_KEY not configured (still using placeholder)"])
        ELSE [ret |-> ProbedStatus(po), cache |-> Some(ProbedStatus(po)), ts |-> t, probes |-> 1]

\* A variant of get_ai_status whose cache never expires.
get_ai_status_no_expiry(cache, ts, t, lib, raw, po) ==
    LET key == get_together_api_key(raw)
        keep(s) == [ret |-> s, cache |-> cache, ts |-> ts, probes |-> 0]
    IN  IF cache # None
        THEN keep(cache[1])
        ELSE IF ~lib
        THEN keep([BaseStatus EXCEPT !.reason = "openai package not installed"])
        ELSE IF key.chars = 0
        THEN keep([BaseStatus EXCEPT !.openai_available = TRUE,
                                     !.reason = "TOGETHER_API_KEY not set in .env"])
        ELSE IF key.chars < 10
        THEN keep([BaseStatus EXCEPT !.openai_available = TRUE, !.api_key_set = TRUE,
                       !.reason = "TOGETHER_API_KEY appears invalid (too short)"])
        ELSE IF key.placeholder
        THEN keep([BaseStatus EXCEPT !.openai_available = TRUE, !.api_key_set = TRUE,
                       !.reason = "TOGETHER_API_KEY not configured (still using placeholder)"])
        ELSE [ret |-> ProbedStatus(po), cache |-> Some(ProbedStatus(po)), ts |-> t, probes |-> 1]

\* get_ai_status(): the returned status, the cache and timestamp it leaves, and
\* the number of live probe requests it sent.  cache/ts are the module globals
\* on entry, t is time.time(), lib tells whether `import openai` succeeds, raw
\* is the environment's key and po is what the live probe would do.
get_ai_status(cache, ts, t, lib, raw, po) ==
    LET key == get_together_api_key(raw)
        keep(s) == [ret |-> s, cache |-> cache, ts |-> ts, probes |-> 0]
    IN  IF cache # None /\ (t - ts) < STATUS_CACHE_TTL
        THEN keep(cache[1])
        ELSE IF ~lib
        THEN keep([BaseStatus EXCEPT !.reason = "openai package not installed"])
        ELSE IF key.chars = 0
        THEN keep([BaseStatus EXCEPT !.openai_available = TRUE,
                                     !.reason = "TOGETHER_API_KEY not set in .env"])
        ELSE IF key.chars < 10
        THEN keep([BaseStatus EXCEPT !.openai_available = TRUE, !.api_key_set = TRUE,
                       !.reason = "TOGETHER_API_KEY appears invalid (too short)"])
        ELSE IF key.placeholder
        THEN keep([BaseStatus EXCEPT !.openai_available = TRUE, !.api_key_set = TRUE,
                       !.reason = "TOGETHER_API_KEY not configured (still using placeholder)"])
        ELSE [ret |-> ProbedStatus(po), cache |-> Some(ProbedStatus(po)), ts |-> t, probes |-> 1]

\* The cheap checks of lines 30-53 pass: the client library imports and the
\* key is set, at least 10 characters long and no placeholder.
CheapChecksPass(lib, raw) ==
    /\ lib
    /\ get_together_api_key(raw).chars >= 10
    /\ ~get_together_api_key(raw).placeholder

\* The reason the cheap checks give when they fail, in the order of the code.
CheapFailureReason(lib, raw) ==
    IF ~lib THEN "openai package not installed"
    ELSE IF get_together_api_key(raw).chars = 0 THEN "TOGETHER_API_KEY not set in .env"
    ELSE IF get_together_api_key(raw).chars < 10
    THEN "TOGETHER_API_KEY appears invalid (too short)"
    ELSE "TOGETHER_API_KEY not configured (still using placeholder)"

----------------------------------------------------------------------------
(* Environment *)

\* Wall-clock time passes.
TickBy(steps, max) ==
    /\ \E d \in steps : now + d <= max /\ now' = now + d
    /\ UNCHANGED <<envVars, statusVars, reviewVars, uploadVars, op>>

\* The process environment's TOGETHER_API_KEY changes.
SetApiKey ==
    /\ \E k \in EnvKeys : k # env_api_key /\ env_api_key' = k
    /\ UNCHANGED <<now, openai_installed, statusVars, reviewVars, uploadVars, op>>

----------------------------------------------------------------------------
(* The AI status probe on its own *)

\* One call of get_ai_status().
GetAiStatusCall ==
    \E po \in ProbeOutcomes :
        LET r == get_ai_status(status_cache, cache_timestamp, now,
                               openai_installed, env_api_key, po)
        IN  /\ status_cache' = r.cache
            /\ cache_timestamp' = r.ts
            /\ last_probe' = IF r.probes > 0 THEN Some([time |-> now, status |-> r.ret])
                             ELSE last_probe
            /\ op' = [kind |-> "get_ai_status", time |-> now, lib |-> openai_installed,
                      key |-> env_api_key, prev_probe |-> last_probe,
                      ret |-> r.ret, probes |-> r.probes]
            /\ UNCHANGED <<now, envVars, reviewVars, uploadVars>>

NoOp == [kind |-> "none"]

\* Initial values of the state of routes/review.py and of the disk, for the
\* specifications that leave them alone.
InitReviewIdle ==
    /\ fs = <<>>
    /\ results_cache = <<>>
    /\ last_done = <<>>

InitUploadIdle ==
    /\ multi_report_cache = <<>>
    /\ rendered = <<>>
    /\ next_report_id = 0
    /\ tmp_dirs = {}

InitStatus ==
    /\ now = 0
    /\ openai_installed \in BOOLEAN
    /\ env_api_key \in EnvKeys
    /\ status_cache = None
    /\ cache_timestamp = 0
    /\ last_probe = None
    /\ InitReviewIdle
    /\ InitUploadIdle
    /\ op = NoOp

NextStatus ==
    \/ TickBy(StatusTicks, MaxStatusTime)
    \/ SetApiKey
    \/ GetAiStatusCall

SpecStatus == InitStatus /\ [][NextStatus]_vars

\* C6: a get_ai_status call that returns through a cheap failure path (library
\* missing, key missing, key too short, placeholder key) leaves _status_cache
\* and _cache_timestamp as they were, and the two are written only by a call
\* that sent the live probe.
C6_CheapPathsLeaveCache ==
    [][ /\ (GetAiStatusCall /\ op'.ret.reason \in CheapReasons)
            => (status_cache' = status_cache /\ cache_timestamp' = cache_timestamp)
        /\ (status_cache' # status_cache \/ cache_timestamp' # cache_timestamp)
            => (op'.kind = "get_ai_status" /\ op'.probes = 1
                /\ op'.ret.reason \notin CheapReasons) ]_vars

\* A cheap-failure call made while an expired probed result sits in the cache,
\* which is still there afterwards with its old timestamp.
C6_Witness ==
    /\ op.kind = "get_ai_status"
    /\ op.ret.reason \in CheapReasons
    /\ status_cache # None
    /\ op.time - cache_timestamp >= 30
    /\ op.prev_probe # None
    /\ status_cache = Some(op.prev_probe[1].status)
    /\ cache_timestamp = op.prev_probe[1].time

\* C7: after a call completed the live probe at time t, a call made before
\* t + 30 sends no probe and returns the probed status; a call at or after
\* t + 30 (or with no probe made yet) that passes the cheap checks sends a probe.
C7_ProbeOncePerThirtySeconds ==
    op.kind = "get_ai_status" =>
        /\ (op.prev_probe # None /\ op.time - op.prev_probe[1].time < 30)
            => (op.probes = 0 /\ op.ret = op.prev_probe[1].status)
        /\ ((op.prev_probe = None \/ op.time - op.prev_probe[1].time >= 30)
              /\ CheapChecksPass(op.lib, op.key))
            => op.probes = 1

\* A call exactly 30 s after the previous probe, which probed again.
C7_Witness ==
    /\ op.kind = "get_ai_status"
    /\ op.prev_probe # None
    /\ op.time - op.prev_probe[1].time = 30
    /\ op.probes = 1

\* A call less than 30 s after the previous probe, served from the cache.
C7_WitnessCached ==
    /\ op.kind = "get_ai_status"
    /\ op.prev_probe # None
    /\ op.time - op.prev_probe[1].time \in 1..29
    /\ op.probes = 0

\* C8 as stated: every get_ai_status call made while the cheap checks fail
\* (library missing, key unset, too short or placeholder) reports
\* available = false with the cheap-failure reason, also within 30 s of a
\* cached probed result.
C8_CheapChecksOnEveryCall ==
    (op.kind = "get_ai_status" /\ ~CheapChecksPass(op.lib, op.key))
        => (op.ret.available = FALSE /\ op.ret.reason = CheapFailureReason(op.lib, op.key))

\* C8 amended: the cheap checks are re-run on every call that is not served
\* from the cache.  A call made while the cheap checks fail returns the cached
\* status when a probe completed less than 30 s earlier, and otherwise reports
\* available = false with the cheap-failure reason, without a probe.
C8_CheapChecksUnlessCached ==
    (op.kind = "get_ai_status" /\ ~CheapChecksPass(op.lib, op.key))
        => IF op.prev_probe # None /\ op.time - op.prev_probe[1].time < 30
           THEN op.ret = op.prev_probe[1].status /\ op.probes = 0
           ELSE /\ op.ret.available = FALSE
                /\ op.ret.reason = CheapFailureReason(op.lib, op.key)
                /\ op.probes = 0

\* A call made with the key unset, within 30 s of a successful probe: it
\* reports the cached "available".
C8_Witness ==
    /\ op.kind = "get_ai_status"
    /\ get_together_api_key(op.key).chars = 0
    /\ op.ret.available
    /\ op.prev_probe # None
    /\ op.time - op.prev_probe[1].time < 30

----------------------------------------------------------------------------
(* app/services/ai.py *)

\* A text is the sequence of its lines ("\n".split): "" is a line without
\* characters, " " a line of whitespace, "FENCE" a bare code fence (three
\* backticks), "FENCEpy" a fence with a language tag and "x" a line of other text.  The empty string
\* is the single empty line.
EmptyStr == <<"">>

IsBlankLine(l) == l \in {"", " "}

StartsWithFence(l) == l \in {"FENCE", "FENCEpy"}

\* bool(s) of a str
Truthy(s) == s # EmptyStr

RECURSIVE LStrip(_)
LStrip(s) ==
    IF s = <<>> THEN <<>>
    ELSE IF IsBlankLine(Head(s)) THEN LStrip(Tail(s)) ELSE s

RECURSIVE RStrip(_)
RStrip(s) ==
    IF s = <<>> THEN <<>>
    ELSE IF IsBlankLine(s[Len(s)]) THEN RStrip(SubSeq(s, 1, Len(s) - 1)) ELSE s

\* str.strip(): leading and trailing whitespace, line breaks included, goes.
strip(s) == LET t == RStrip(LStrip(s)) IN IF t = <<>> THEN EmptyStr ELSE t

\* message.content of the first choice: None or a text.
ReplyContents ==
    { None, Some(EmptyStr), Some(<<" ">>), Some(<<"x">>), Some(<<" ", "x", "">>),
      Some(<<"FENCEpy", "x", "FENCE">>), Some(<<"FENCE">>) }

\* What client.chat.completions.create does: it throws, or it returns a
\* response with no choices or with one choice.
Replies ==
    { [throws |-> TRUE, choices |-> <<>>], [throws |-> FALSE, choices |-> <<>>] } \cup
    { [throws |-> FALSE, choices |-> <<[content |-> c]>>] : c \in ReplyContents }

\* _client(): None without the client library or without a key.
_client(lib, raw) ==
    IF ~lib THEN None
    ELSE IF get_together_api_key(raw).chars = 0 THEN None
    ELSE Some("OpenAI")

\* r.choices and r.choices[0].message.content
HasContent(reply) ==
    /\ reply.choices # <<>>
    /\ reply.choices[1].content # None
    /\ Truthy(reply.choices[1].content[1])

\* The result of an AIService operation: the value returned (None or a text),
\* whether it raised to its caller, and the chat-completion requests it sent.
Returned(v, n) == [ret |-> v, raised |-> FALSE, requests |-> n]

\* suggest_fixes without its try/except.
suggest_fixes_no_except(lib, raw, reply) ==
    IF _client(lib, raw) = None THEN Returned(None, 0)
    ELSE IF reply.throws THEN [ret |-> None, raised |-> TRUE, requests |-> 1]
    ELSE IF HasContent(reply) THEN Returned(Some(strip(reply.choices[1].content[1])), 1)
    ELSE Returned(None, 1)

suggest_fixes(lib, raw, reply) ==
    IF _client(lib, raw) = None THEN Returned(None, 0)
    ELSE IF reply.throws THEN Returned(None, 1)
    ELSE IF HasContent(reply) THEN Returned(Some(strip(reply.choices[1].content[1])), 1)
    ELSE Returned(None, 1)

\* Lines 120-129: the stripped text without its leading fence line and, when
\* the last line is a bare fence, without that line.
StripCodeFence(content) ==
    LET text == strip(content)
    IN  IF StartsWithFence(text[1])
        THEN LET l1 == Tail(text)
                 l2 == IF l1 # <<>> /\ l1[Len(l1)] = "FENCE"
                       THEN SubSeq(l1, 1, Len(l1) - 1) ELSE l1
             IN  IF l2 = <<>> THEN EmptyStr ELSE l2
        ELSE text

generate_tests(lib, raw, reply) ==
    IF _client(lib, raw) = None THEN Returned(None, 0)
    ELSE IF reply.throws THEN Returned(None, 1)
    ELSE IF HasContent(reply) THEN Returned(Some(StripCodeFence(reply.choices[1].content[1])), 1)
    ELSE Returned(None, 1)

analyze_group_relationships(lib, raw, reply) ==
    IF _client(lib, raw) = None THEN Returned(None, 0)
    ELSE IF reply.throws THEN Returned(None, 1)
    ELSE IF HasContent(reply) THEN Returned(Some(strip(reply.choices[1].content[1])), 1)
    ELSE Returned(None, 1)

suggest_group_fixes(lib, raw, reply) ==
    IF _client(lib, raw) = None THEN Returned(None, 0)
    ELSE IF reply.throws THEN Returned(None, 1)
    ELSE IF HasContent(reply) THEN Returned(Some(strip(reply.choices[1].content[1])), 1)
    ELSE Returned(None, 1)

\* One call of an AIService operation, with what it was called under.
AIServiceCall(name, r, reply) ==
    /\ op' = [kind |-> "ai_service", name |-> name, lib |-> openai_installed,
              key |-> env_api_key, reply |-> reply,
              ret |-> r.ret, raised |-> r.raised, requests |-> r.requests]
    /\ UNCHANGED <<now, envVars, statusVars, reviewVars, uploadVars>>

SuggestFixesCall ==
    \E reply \in Replies :
        AIServiceCall("suggest_fixes", suggest_fixes(openai_installed, env_api_key, reply), reply)

GenerateTestsCall ==
    \E reply \in Replies :
        AIServiceCall("generate_tests", generate_tests(openai_installed, env_api_key, reply), reply)

AnalyzeGroupRelationshipsCall ==
    \E reply \in Replies :
        AIServiceCall("analyze_group_relationships",
                      analyze_group_relationships(openai_installed, env_api_key, reply), reply)

SuggestGroupFixesCall ==
    \E reply \in Replies :
        AIServiceCall("suggest_group_fixes",
                      suggest_group_fixes(openai_installed, env_api_key, reply), reply)

InitAI == InitStatus

NextAI ==
    \/ SetApiKey
    \/ SuggestFixesCall
    \/ GenerateTestsCall
    \/ AnalyzeGroupRelationshipsCall
    \/ SuggestGroupFixesCall

SpecAI == InitAI /\ [][NextAI]_vars

\* The faults of C10: no client library, no key, a backend call that throws,
\* a response without choices, a first choice without content or with "".
C10_Fault(o) ==
    \/ ~o.lib
    \/ get_together_api_key(o.key).chars = 0
    \/ o.reply.throws
    \/ o.reply.choices = <<>>
    \/ o.reply.choices[1].content \in {None, Some(EmptyStr)}

----------------------------------------------------------------------------
(* The files on disk, app/utils.py and the single-file flow of             *)
(* app/routes/review.py and app/routes/analyze.py                          *)

CACHE_TTL == 300

MaxReviewTime == 450

\* Clock steps used with the 300 s caches: 150 + 150 hits the TTL exactly.
ReviewTicks == {150}

\* A path or a form value is the sequence of its characters, cut into the
\* pieces the code looks at: " " is whitespace, "/" the leading separator,
\* the last piece the suffix.
PathA == <<"/", "a", ".py">>
RelA == <<"a", ".py">>
AbsPaths == {PathA}

\* The values of the file_path form field / query parameter.
FormValues == { <<" ">>, <<" ">> \o PathA \o <<" ">>, PathA, RelA }

\* The texts a file on disk holds: "" is the empty file.
FileContents == {"", "c1"}

RECURSIVE LStripChars(_)
LStripChars(s) ==
    IF s = <<>> THEN <<>>
    ELSE IF Head(s) = " " THEN LStripChars(Tail(s)) ELSE s

RECURSIVE RStripChars(_)
RStripChars(s) ==
    IF s = <<>> THEN <<>>
    ELSE IF s[Len(s)] = " " THEN RStripChars(SubSeq(s, 1, Len(s) - 1)) ELSE s

\* (file_path or "").strip()
StripChars(s) == RStripChars(LStripChars(s))

\* Path(p).is_absolute()
is_absolute(p) == p # <<>> /\ p[1] = "/"

\* Path(p).exists(), for an absolute path
exists(files, p) == p \in DOMAIN files /\ files[p] # None

\* cross_platform_checker.utils.detect_language: by suffix, never empty
detect_language(p) ==
    LET ext == p[Len(p)]
        lang_map == [e \in {".py"} |-> "python"]
                    @@ [e \in {".cpp", ".cxx", ".cc", ".hpp"} |-> "cpp"]
                    @@ [e \in {".c", ".h"} |-> "c"]
                    @@ [e \in {".js", ".jsx"} |-> "javascript"]
                    @@ (".ts" :> "typescript") @@ (".java" :> "java")
                    @@ (".go" :> "go") @@ (".rs" :> "rust") @@ (".cs" :> "csharp")
    IN  IF ext \in DOMAIN lang_map THEN lang_map[ext] ELSE "unknown"

\* CheckerService.analyze_file / analyze_code: the issues of the rule engine
\* are a function of the text checked.
analyze_text(text) == [issues_of |-> text]

\* A dict with the entry k -> v set.
DictPut(d, k, v) == [q \in DOMAIN d \cup {k} |-> IF q = k THEN v ELSE d[q]]

\* A dict without the keys in ks.
DictDrop(d, ks) == [q \in DOMAIN d \ ks |-> d[q]]

EmptyDict == [q \in {} |-> None]

\* The AnalyzeRequest bodies: a file_path, or code and language, or neither.
FilePathRequest(p) == [file_path |-> Some(p), code |-> None, language |-> None]

AnalyzeRequests ==
    { FilePathRequest(p) : p \in {PathA, RelA} } \cup
    { [file_path |-> None, code |-> Some("c1"), language |-> Some("python")],
      [file_path |-> None, code |-> Some("c1"), language |-> None],
      [file_path |-> Some(PathA), code |-> Some(""), language |-> Some("python")] }

\* What run_check leaves: the HTTP status, (issues, code, lang), the number of
\* checker runs and the number of temp files analyze_code wrote.
Checked(status, issues, code, lang, checks, temps) ==
    [status |-> status, issues |-> issues, code |-> code, lang |-> lang,
     checks |-> checks, temps |-> temps]

\* run_check that looks at code and language before file_path.
run_check_code_first(req, files) ==
    IF req.code # None /\ req.language # None /\ req.language[1] # ""
    THEN Checked(200, Some(analyze_text(req.code[1])), req.code, req.language, 1, 1)
    ELSE IF req.file_path # None /\ req.file_path[1] # <<>>
    THEN LET p == req.file_path[1]
         IN  IF ~is_absolute(p) THEN Checked(400, None, None, None, 0, 0)
             ELSE IF ~exists(files, p) THEN Checked(404, None, None, None, 0, 0)
             ELSE Checked(200, Some(analyze_text(files[p][1])), files[p],
                          Some(detect_language(p)), 1, 0)
    ELSE Checked(400, None, None, None, 0, 0)

\* run_check(req): status 200 with (issues, code, lang), or the HTTPException
\* status raised.  "if req.file_path" is false for None and for "".
run_check(req, files) ==
    IF req.file_path # None /\ req.file_path[1] # <<>>
    THEN LET p == req.file_path[1]
         IN  IF ~is_absolute(p) THEN Checked(400, None, None, None, 0, 0)
             ELSE IF ~exists(files, p) THEN Checked(404, None, None, None, 0, 0)
             ELSE Checked(200, Some(analyze_text(files[p][1])), files[p],
                          Some(detect_language(p)), 1, 0)
    ELSE IF req.code # None /\ req.language # None /\ req.language[1] # ""
    THEN Checked(200, Some(analyze_text(req.code[1])), req.code, req.language, 1, 1)
    ELSE Checked(400, None, None, None, 0, 0)

\* The calls a request made: run_check, the AIService operations, the
\* chat-completion requests sent to the backend, and the live status probes.
NoCalls ==
    [run_check |-> 0, suggest_fixes |-> 0, generate_tests |-> 0, backend |-> 0, probes |-> 0]

\* The AI half shared by _analyze_file and analyze: suggest_fixes always,
\* generate_tests when code and lang are both non-empty.
AiTexts(code, lang, lib, raw, r1, r2) ==
    LET sf == suggest_fixes(lib, raw, r1)
        wants == code # None /\ code[1] # "" /\ lang # None /\ lang[1] # ""
        gt == IF wants THEN generate_tests(lib, raw, r2) ELSE Returned(None, 0)
    IN  [ai_suggestions |-> sf.ret, generated_tests |-> gt.ret,
         calls |-> [NoCalls EXCEPT !.run_check = 1, !.suggest_fixes = 1,
                                   !.generate_tests = IF wants THEN 1 ELSE 0,
                                   !.backend = sf.requests + gt.requests]]

\* Lines 109-121 of _analyze_file: 400/404 for a relative/missing path; else
\* run_check, the two AI calls and the cache write.
AnalyzeFresh(file_path, cache, t, files, lib, raw, r1, r2) ==
    IF ~is_absolute(file_path)
    THEN [status |-> 400, result |-> None, cache |-> cache, calls |-> NoCalls]
    ELSE IF ~exists(files, file_path)
    THEN [status |-> 404, result |-> None, cache |-> cache, calls |-> NoCalls]
    ELSE LET rc == run_check(FilePathRequest(file_path), files)
             ai == AiTexts(rc.code, rc.lang, lib, raw, r1, r2)
             result == [issues |-> rc.issues[1], code |-> rc.code, lang |-> rc.lang,
                        ai_suggestions |-> ai.ai_suggestions,
                        generated_tests |-> ai.generated_tests]
         IN  [status |-> 200, result |-> Some(result),
              cache |-> DictPut(cache, file_path, [result |-> result, time |-> t]),
              calls |-> ai.calls]

\* Lines 103-107: the cached tuple is returned.
FromCache(file_path, cache) ==
    [status |-> 200, result |-> Some(cache[file_path].result), cache |-> cache,
     calls |-> NoCalls]

\* _analyze_file with a cache whose entries are served whatever their age.
_analyze_file_no_ttl(file_path, use_cache, cache, t, files, lib, raw, r1, r2) ==
    IF use_cache /\ file_path \in DOMAIN cache
    THEN FromCache(file_path, cache)
    ELSE AnalyzeFresh(file_path, cache, t, files, lib, raw, r1, r2)

\* _analyze_file that still serves an entry exactly CACHE_TTL old.
_analyze_file_ttl_inclusive(file_path, use_cache, cache, t, files, lib, raw, r1, r2) ==
    IF use_cache /\ file_path \in DOMAIN cache
       /\ t - cache[file_path].time <= CACHE_TTL
    THEN FromCache(file_path, cache)
    ELSE AnalyzeFresh(file_path, cache, t, files, lib, raw, r1, r2)

\* _analyze_file(file_path, use_cache): the cached tuple when the entry is
\* younger than CACHE_TTL, else a fresh analysis.  cache is _results_cache on
\* entry, t is time.time(), r1 and r2 are what the backend answers.
_analyze_file(file_path, use_cache, cache, t, files, lib, raw, r1, r2) ==
    IF use_cache /\ file_path \in DOMAIN cache
       /\ t - cache[file_path].time < CACHE_TTL
    THEN FromCache(file_path, cache)
    ELSE AnalyzeFresh(file_path, cache, t, files, lib, raw, r1, r2)

\* The backend answers and probe outcomes drawn in the request flows.
FlowReplies ==
    { [throws |-> TRUE, choices |-> <<>>],
      [throws |-> FALSE, choices |-> <<[content |-> Some(<<" ", "x", "">>)]>>] }

FlowProbeOutcomes == { po \in ProbeOutcomes : po.ok }

\* The request bodies POST /analyze is driven with.
FlowAnalyzeRequests ==
    { req \in AnalyzeRequests : req.file_path = None \/ req.code = None }

\* The keys the request flows run under.
FlowEnvKeys == { k \in EnvKeys : k.spaces = 0 /\ k.chars \in {9, 40} }

\* What a request knew of the path it was given: whether it is absolute,
\* whether the file is on disk, and the last completed analysis of it.
PathFacts(file_path) ==
    [file_path |-> file_path, time |-> now,
     absolute |-> is_absolute(file_path),
     on_disk |-> is_absolute(file_path) /\ exists(fs, file_path),
     prev_done |-> IF file_path \in DOMAIN last_done THEN Some(last_done[file_path]) ELSE None]

\* The effect of _render_ai_status_banner (render_template with the global
\* banner) on the status cache.
BannerEffect(st) ==
    /\ status_cache' = st.cache
    /\ cache_timestamp' = st.ts
    /\ last_probe' = IF st.probes > 0 THEN Some([time |-> now, status |-> st.ret])
                     ELSE last_probe

\* The history of completed _analyze_file runs after a call with outcome a.
DoneAfter(file_path, a) ==
    IF a.status = 200 /\ a.calls.run_check > 0
    THEN DictPut(last_done, file_path, [time |-> now, result |-> a.result[1]])
    ELSE last_done

\* POST /review with only file_path given (folder_path and zip_path blank):
\* the results page, or the form with an error and the AI status banner.
ReviewPost ==
    \E v \in FormValues, r1 \in FlowReplies, r2 \in FlowReplies, po \in FlowProbeOutcomes :
        LET file_path == StripChars(v)
            a == _analyze_file(file_path, TRUE, results_cache, now, fs,
                               openai_installed, env_api_key, r1, r2)
            ok == file_path # <<>> /\ a.status = 200
            st == get_ai_status(status_cache, cache_timestamp, now,
                                openai_installed, env_api_key, po)
        IN  /\ results_cache' = IF file_path = <<>> THEN results_cache ELSE a.cache
            /\ last_done' = IF file_path = <<>> THEN last_done ELSE DoneAfter(file_path, a)
            /\ IF ok THEN UNCHANGED statusVars ELSE BannerEffect(st)
            /\ op' = [kind |-> "review_post", path |-> PathFacts(file_path),
                      page |-> IF ok THEN "results" ELSE "form_error",
                      status |-> 200,
                      result |-> IF ok THEN a.result ELSE None,
                      calls |-> IF ok THEN a.calls ELSE [NoCalls EXCEPT !.probes = st.probes]]
            /\ UNCHANGED <<now, envVars, fs, uploadVars>>

\* GET /review/download: the redirect for a blank file_path, else the report
\* of _analyze_file or its HTTPException.
ReviewDownload ==
    \E v \in FormValues, r1 \in FlowReplies, r2 \in FlowReplies :
        LET file_path == StripChars(v)
            a == _analyze_file(file_path, TRUE, results_cache, now, fs,
                               openai_installed, env_api_key, r1, r2)
            blank == file_path = <<>>
        IN  /\ results_cache' = IF blank THEN results_cache ELSE a.cache
            /\ last_done' = IF blank THEN last_done ELSE DoneAfter(file_path, a)
            /\ op' = [kind |-> "review_download", path |-> PathFacts(file_path),
                      page |-> IF blank THEN "redirect"
                               ELSE IF a.status = 200 THEN "report" ELSE "error",
                      status |-> IF blank THEN 302 ELSE a.status,
                      result |-> IF blank THEN None ELSE a.result,
                      calls |-> IF blank THEN NoCalls ELSE a.calls]
            /\ UNCHANGED <<now, envVars, statusVars, fs, uploadVars>>

\* POST /analyze: run_check, then the two AI calls; no cache.
Analyze ==
    \E req \in FlowAnalyzeRequests, r1 \in FlowReplies, r2 \in FlowReplies :
        LET rc == run_check(req, fs)
            ai == AiTexts(rc.code, rc.lang, openai_installed, env_api_key, r1, r2)
            ok == rc.status = 200
        IN  /\ op' = [kind |-> "analyze", req |-> req, time |-> now,
                      page |-> IF ok THEN "json" ELSE "error",
                      status |-> rc.status,
                      result |-> IF ok THEN Some([issues |-> rc.issues[1], code |-> rc.code,
                                                  lang |-> rc.lang,
                                                  ai_suggestions |-> ai.ai_suggestions,
                                                  generated_tests |-> ai.generated_tests])
                                 ELSE None,
                      calls |-> IF ok THEN ai.calls ELSE [NoCalls EXCEPT !.run_check = 1]]
            /\ UNCHANGED <<now, envVars, statusVars, reviewVars, uploadVars>>

\* A file is written to disk (created or overwritten).
WriteFile ==
    \E p \in AbsPaths, c \in FileContents :
        /\ fs[p] # Some(c)
        /\ fs' = [fs EXCEPT ![p] = Some(c)]
        /\ op' = NoOp
        /\ UNCHANGED <<now, envVars, statusVars, results_cache, last_done, uploadVars>>

\* A file is removed from disk.
DeleteFile ==
    \E p \in AbsPaths :
        /\ fs[p] # None
        /\ fs' = [fs EXCEPT ![p] = None]
        /\ op' = NoOp
        /\ UNCHANGED <<now, envVars, statusVars, results_cache, last_done, uploadVars>>

\* Time passes between two requests; the response of the last one is gone.
Elapse(steps, max) ==
    /\ \E d \in steps : now + d <= max /\ now' = now + d
    /\ op' = NoOp
    /\ UNCHANGED <<envVars, statusVars, reviewVars, uploadVars>>

InitReview ==
    /\ now = 0
    /\ openai_installed = TRUE
    /\ env_api_key \in FlowEnvKeys
    /\ status_cache = None
    /\ cache_timestamp = 0
    /\ last_probe = None
    /\ fs \in [AbsPaths -> {None} \cup {Some(c) : c \in FileContents}]
    /\ results_cache = EmptyDict
    /\ last_done = EmptyDict
    /\ InitUploadIdle
    /\ op = NoOp

NextReview ==
    \/ Elapse(ReviewTicks, MaxReviewTime)
    \/ WriteFile
    \/ DeleteFile
    \/ ReviewPost
    \/ ReviewDownload
    \/ Analyze

SpecReview == InitReview /\ [][NextReview]_vars


-----------------------------------------------------------------------------
(* Claims about the single-file review flows *)

\* The last request was a single-file review request for a non-blank path.
SingleFileRequest ==
    /\ op.kind \in {"review_post", "review_download"}
    /\ op.path.file_path # <<>>

\* The age, at the last request, of the last completed analysis of its path.
PrevAge == op.path.time - op.path.prev_done[1].time

\* The last request was turned down: the form with an error for POST /review,
\* an HTTP error for GET /review/download.
Rejected ==
    /\ op.result = None
    /\ IF op.kind = "review_post" THEN op.page = "form_error"
       ELSE op.page = "error" /\ op.status \in {400, 404}

\* C1: a single-file review request for a path analysed less than 300 s
\* before gets the results of that analysis back with no call of the AI
\* service; a request 300 s or more after the last completed analysis of a
\* path that is still on disk runs the analysis and calls the AI service again.
C1_ResultsCacheTTL ==
    (SingleFileRequest /\ op.path.prev_done # None) =>
        /\ PrevAge < 300 =>
              /\ op.result = Some(op.path.prev_done[1].result)
              /\ op.calls.suggest_fixes = 0
              /\ op.calls.generate_tests = 0
              /\ op.calls.backend = 0
        /\ (PrevAge >= 300 /\ op.path.on_disk) =>
              /\ op.result # None
              /\ op.calls.run_check = 1
              /\ op.calls.suggest_fixes = 1
              /\ op.calls.backend >= 1

\* C1 witness: a request exactly 300 s after the analysis of its path ran the
\* analysis again and reached the backend.
C1_Witness ==
    /\ SingleFileRequest
    /\ op.path.prev_done # None
    /\ PrevAge = 300
    /\ op.path.on_disk
    /\ op.calls.backend >= 1

\* C1 witness: a request 150 s after the analysis of its path was served from
\* the cache.
C1_WitnessCached ==
    /\ SingleFileRequest
    /\ op.path.prev_done # None
    /\ PrevAge = 150
    /\ op.result = Some(op.path.prev_done[1].result)
    /\ op.calls.run_check = 0

\* C2 as stated: a single-file review request whose path is relative or names
\* no file on disk is rejected, whatever was analysed before.
C2_MissingPathRejected ==
    (SingleFileRequest /\ ~op.path.on_disk) => Rejected

\* C2: a single-file review request whose path is relative or names no file
\* on disk is rejected, unless that path was analysed less than 300 s before:
\* then the cached results of that analysis are returned although the file is
\* gone.
C2_MissingPathRejectedUnlessCached ==
    (SingleFileRequest /\ ~op.path.on_disk) =>
        IF op.path.prev_done # None /\ PrevAge < 300
        THEN op.result = Some(op.path.prev_done[1].result) /\ ~Rejected
        ELSE Rejected

\* C2 witness: the file was analysed and deleted, and a request
\* at least 300 s after the analysis is rejected.
C2_Witness ==
    /\ SingleFileRequest
    /\ op.path.absolute
    /\ ~op.path.on_disk
    /\ op.path.prev_done # None
    /\ PrevAge >= 300
    /\ Rejected

\* C2 witness: the file was analysed and deleted, and a request within 300 s
\* of the analysis gets the cached results.
C2_WitnessServedAfterDelete ==
    /\ SingleFileRequest
    /\ ~op.path.on_disk
    /\ op.path.prev_done # None
    /\ PrevAge < 300
    /\ op.result # None

\* What the AI status probe could answer at the time of the last request.
ProbeMayReportAvailable ==
    \E po \in ProbeOutcomes :
        get_ai_status(status_cache, cache_timestamp, now,
                      openai_installed, env_api_key, po).ret.available

\* C9: a request flow sends requests to the AI backend only if the AI status
\* probe determines the AI features available.
C9_BackendOnlyIfProbeAvailable ==
    (op.kind \in {"review_post", "review_download", "analyze"} /\ op.calls.backend > 0)
        => ProbeMayReportAvailable

-----------------------------------------------------------------------------
(* Ingestion: temp directories, multi-file analysis and the report cache *)

MaxUploadTime == 400

\* Clock steps of the upload flows: an entry stored at 0 is younger than
\* CACHE_TTL after one step and older after two.
UploadTicks == {200}

\* The number of report ids drawn (uuid4 never repeats one).
MaxReports == 2

\* The number of temp directories left on disk.
MaxTmp == 1

\* A source named by path (folder_path, zip_path, source_path): a relative
\* path, a path of nothing on disk, a folder, or a .zip file that opens as a
\* zip or does not; nsrc is the number of source files found in it.
Sources ==
    { [kind |-> "relative", valid |-> FALSE, nsrc |-> 0],
      [kind |-> "missing", valid |-> FALSE, nsrc |-> 0],
      [kind |-> "zip", valid |-> FALSE, nsrc |-> 0] } \cup
    { [kind |-> k, valid |-> TRUE, nsrc |-> n] : k \in {"folder", "zip"}, n \in {0, 2} }

\* The multipart upload of POST /review/results after the parts without a
\* filename are dropped: nothing, a single .zip (a zip or not), or regular
\* files / a folder selection.
Uploads ==
    { [kind |-> "none", name |-> "", valid |-> FALSE, nsrc |-> 0],
      [kind |-> "zip", name |-> "a.zip", valid |-> FALSE, nsrc |-> 0] } \cup
    { [kind |-> "zip", name |-> "a.zip", valid |-> TRUE, nsrc |-> n] : n \in {0, 1} } \cup
    { [kind |-> "files", name |-> "proj", valid |-> TRUE, nsrc |-> n] : n \in {0, 1, 2} }

\* The mode field of the form: "ai" (the default), "rules", or any other text;
\* the handler compares it with "ai" and nothing else.
Modes == {"ai", "rules", "AI"}

\* Where a request breaks: nowhere, while an uploaded part is written under
\* the temp directory, or in the analysis after extraction.
Faults == {"none", "write", "analysis"}
AnalysisFaults == {"none", "analysis"}

\* tempfile.mkdtemp(prefix=...): a directory name not in use.
FreshDir(prefix, tmp) ==
    <<prefix, CHOOSE n \in 0..Cardinality(tmp) :
                  /\ <<prefix, n>> \notin tmp
                  /\ \A m \in 0..(n - 1) : <<prefix, m>> \in tmp>>

\* What an extraction leaves: whether it raised, the number of source files,
\* the temp directories on disk, and the directory it created.
Extracted(raised, n, tmp, created) ==
    [raised |-> raised, nsrc |-> n, tmp |-> tmp, created |-> created]

\* ZipFile(zip_path) is opened before mkdtemp.
_extract_from_zip_path(src, tmp) ==
    IF ~src.valid THEN Extracted(TRUE, 0, tmp, None)
    ELSE LET d == FreshDir("compat_checker_", tmp)
         IN  Extracted(FALSE, src.nsrc, tmp \cup {d}, Some(d))

\* mkdtemp comes first, then the upload is saved and opened as a zip.
_extract_from_uploaded_zip(up, fault, tmp) ==
    LET d == FreshDir("compat_checker_", tmp)
    IN  IF fault = "write" \/ ~up.valid
        THEN Extracted(TRUE, 0, tmp \cup {d}, Some(d))
        ELSE Extracted(FALSE, up.nsrc, tmp \cup {d}, Some(d))

\* mkdtemp, then every part is written; the directory is returned at the end.
build_temp_tree_from_uploads(up, fault, tmp) ==
    LET d == FreshDir("compat_upload_", tmp)
    IN  [raised |-> fault = "write", dir |-> d, tmp |-> tmp \cup {d}]

\* extract_files of a path: a zip, a folder, or a ValueError.
extract_files(src, tmp) ==
    IF src.kind = "zip" THEN _extract_from_zip_path(src, tmp)
    ELSE IF src.kind = "folder" THEN Extracted(FALSE, src.nsrc, tmp, None)
    ELSE Extracted(TRUE, 0, tmp, None)

\* shutil.rmtree(temp_dir)
cleanup_temp_files(d, tmp) == tmp \ {d}

\* What a multi-file request called: the extractor, the checker service, the
\* relationship detector, AIService operations, backend requests, live probes.
NoIngestCalls ==
    [extract |-> 0, check |-> 0, graph |-> 0, ai_calls |-> 0, backend |-> 0, probes |-> 0]

\* analyze_files, build_dependency_graph and, with use_ai, the two group
\* operations of the AI service.
GroupAnalysis(use_ai, lib, raw, r) ==
    LET agr == analyze_group_relationships(lib, raw, r)
        sgf == suggest_group_fixes(lib, raw, r)
    IN  [cross_file_insights |-> IF use_ai THEN agr.ret ELSE None,
         ai_fix_suggestions |-> IF use_ai THEN sgf.ret ELSE None,
         calls |-> [NoIngestCalls EXCEPT !.extract = 1, !.check = 1, !.graph = 1,
                        !.ai_calls = IF use_ai THEN 2 ELSE 0,
                        !.backend = IF use_ai THEN agr.requests + sgf.requests ELSE 0]]

\* The report text is a function of what it is formatted from.
format_multi_file_report(source_path, source_type, nfiles, g) ==
    [source_path |-> source_path, source_type |-> source_type, files |-> nfiles,
     cross_file_insights |-> g.cross_file_insights,
     ai_fix_suggestions |-> g.ai_fix_suggestions]

\* An eviction that deletes every entry older than the one just written.
EvictOlder(cache, t) ==
    DictDrop(cache, { rid \in DOMAIN cache : t - cache[rid].time > 0 })

\* Lines 436-438: the entries older than CACHE_TTL at time t are deleted.
EvictExpired(cache, t) ==
    DictDrop(cache, { rid \in DOMAIN cache : t - cache[rid].time > CACHE_TTL })

\* What a multi-file handler leaves: the page or response, the report id and
\* text, the report cache, the ids drawn, the temp directories on disk, the
\* directory the request created, and what was called.
Handled(page, status, rid, body, cache, next_id, tmp, created, calls) ==
    [page |-> page, status |-> status, report_id |-> rid, body |-> body,
     cache |-> cache, next_id |-> next_id, tmp |-> tmp, created |-> created,
     calls |-> calls]

Extract1 == [NoIngestCalls EXCEPT !.extract = 1]

\* review_results_post from "if not source_files" on: ex is what ingestion
\* left, temp_dir the local variable the finally clauses look at.
ResultsAfterIngest(up, mode, fault, r, ex, temp_dir, cache, t, next_id, lib, raw) ==
    LET tmp_end == IF temp_dir # None /\ temp_dir[1] \in ex.tmp
                      /\ temp_dir[1][1] = "compat_upload_"
                   THEN cleanup_temp_files(temp_dir[1], ex.tmp)
                   ELSE ex.tmp
        form(calls) == Handled("form_error", 200, None, None, cache, next_id,
                               tmp_end, ex.created, calls)
        use_ai == mode = "ai"
    IN  IF ex.raised \/ ex.nsrc = 0 THEN form(Extract1)
        ELSE IF fault = "analysis" THEN form([Extract1 EXCEPT !.check = 1])
        ELSE IF ex.nsrc = 1
        THEN LET ai == AiTexts(Some("c1"), Some("python"), lib, raw, r, r)
             IN  Handled("results", 200, None,
                         Some([ai_suggestions |-> IF use_ai THEN ai.ai_suggestions ELSE None,
                               generated_tests |-> IF use_ai THEN ai.generated_tests ELSE None]),
                         cache, next_id, tmp_end, ex.created,
                         [Extract1 EXCEPT !.check = 1,
                              !.ai_calls = IF use_ai THEN 2 ELSE 0,
                              !.backend = IF use_ai THEN ai.calls.backend ELSE 0])
        ELSE LET g == GroupAnalysis(use_ai, lib, raw, r)
                 report_text == format_multi_file_report(up.name, "upload", ex.nsrc, g)
                 report_id == next_id
                 written == DictPut(cache, report_id,
                                    [text |-> report_text, time |-> t, label |-> up.name])
             IN  Handled("multi_results", 200, Some(report_id), Some(report_text),
                         EvictExpired(written, t), next_id + 1, tmp_end, ex.created,
                         g.calls)

\* POST /review/results.
review_results_post(up, mode, fault, r, cache, t, next_id, tmp, lib, raw) ==
    IF up.kind = "none"
    THEN Handled("form_error", 200, None, None, cache, next_id, tmp, None, NoIngestCalls)
    ELSE IF up.kind = "zip"
    THEN ResultsAfterIngest(up, mode, fault, r, _extract_from_uploaded_zip(up, fault, tmp),
                            None, cache, t, next_id, lib, raw)
    ELSE LET bt == build_temp_tree_from_uploads(up, fault, tmp)
         IN  IF bt.raised
             THEN Handled("form_error", 200, None, None, cache, next_id, bt.tmp,
                          Some(bt.dir), NoIngestCalls)
             ELSE ResultsAfterIngest(up, mode, fault, r,
                                     Extracted(FALSE, up.nsrc, bt.tmp, Some(bt.dir)),
                                     Some(bt.dir), cache, t, next_id, lib, raw)

\* _handle_multi_file_analysis_html: POST /review with folder_path or zip_path.
_handle_multi_file_analysis_html(src, fault, r, cache, next_id, tmp, lib, raw) ==
    IF src.kind \in {"relative", "missing"}
    THEN Handled("form_error", 200, None, None, cache, next_id, tmp, None, NoIngestCalls)
    ELSE LET ex == extract_files(src, tmp)
             form(calls) == Handled("form_error", 200, None, None, cache, next_id,
                                    ex.tmp, ex.created, calls)
         IN  IF ex.raised \/ ex.nsrc = 0 THEN form(Extract1)
             ELSE IF fault = "analysis" THEN form([Extract1 EXCEPT !.check = 1])
             ELSE LET g == GroupAnalysis(TRUE, lib, raw, r)
                  IN  Handled("multi_results", 200, None,
                              Some(format_multi_file_report(src.kind, src.kind, ex.nsrc, g)),
                              cache, next_id, ex.tmp, ex.created, g.calls)

\* The body of POST /review/multi: nothing to analyse, or a source.
NoSource == [kind |-> "none", valid |-> FALSE, nsrc |-> 0]

\* POST /review/multi: the temp directory is looked for among the parents of
\* the first source file, and removed in the finally clause when found.
review_multi(src, fault, r, cache, next_id, tmp, lib, raw) ==
    LET err(status) == Handled("error", status, None, None, cache, next_id, tmp, None,
                               NoIngestCalls)
    IN  IF src.kind \in {"none", "relative"} THEN err(400)
        ELSE IF src.kind = "missing" THEN err(404)
        ELSE LET ex == extract_files(src, tmp)
                 temp_dir == IF ex.nsrc > 0 THEN ex.created ELSE None
                 tmp_end == IF temp_dir # None /\ temp_dir[1] \in ex.tmp
                               /\ temp_dir[1][1] = "compat_checker_"
                            THEN cleanup_temp_files(temp_dir[1], ex.tmp)
                            ELSE ex.tmp
                 fail(status, calls) == Handled("error", status, None, None, cache, next_id,
                                                tmp_end, ex.created, calls)
             IN  IF ex.raised THEN fail(500, Extract1)
                 ELSE IF ex.nsrc = 0 THEN fail(400, Extract1)
                 ELSE IF fault = "analysis" THEN fail(500, [Extract1 EXCEPT !.check = 1])
                 ELSE LET g == GroupAnalysis(TRUE, lib, raw, r)
                      IN  Handled("json", 200, None,
                                  Some(format_multi_file_report(src.kind, src.kind, ex.nsrc, g)),
                                  cache, next_id, tmp_end, ex.created, g.calls)

\* The query of GET /review/multi/download.  A report id is blank or one of
\* the ids; MaxReports is an id no upload is given.
DownloadRequests ==
    { [source_type |-> "", report_id |-> None, source |-> None],
      [source_type |-> "upload", report_id |-> None, source |-> None],
      [source_type |-> "upload", report_id |-> Some([blank |-> TRUE, id |-> 0]), source |-> None] }
    \cup { [source_type |-> "upload", report_id |-> Some([blank |-> FALSE, id |-> i]),
            source |-> None] : i \in 0..MaxReports }
    \cup { [source_type |-> IF src.kind = "folder" THEN "folder" ELSE "zip",
            report_id |-> None, source |-> Some(src)] : src \in Sources }

\* GET /review/multi/download: the upload flow serves _multi_report_cache.get,
\* the path-based flow analyses the source again.
review_multi_download(req, fault, r, cache, next_id, tmp, lib, raw) ==
    LET resp(page, status, body, tmp2, created, calls) ==
            Handled(page, status, None, body, cache, next_id, tmp2, created, calls)
        err(status) == resp("error", status, None, tmp, None, NoIngestCalls)
    IN  IF req.source_type = "" THEN resp("redirect", 302, None, tmp, None, NoIngestCalls)
        ELSE IF req.source_type = "upload" /\ req.report_id # None
        THEN IF req.report_id[1].blank THEN err(400)
             ELSE IF req.report_id[1].id \notin DOMAIN cache THEN err(404)
             ELSE resp("report", 200, Some(cache[req.report_id[1].id].text), tmp, None,
                       NoIngestCalls)
        ELSE IF req.source = None THEN err(400)
        ELSE IF req.source[1].kind = "relative" THEN err(400)
        ELSE IF req.source[1].kind = "missing" THEN err(404)
        ELSE LET src == req.source[1]
                 ex == extract_files(src, tmp)
                 fail(status, calls) == resp("error", status, None, ex.tmp, ex.created, calls)
             IN  IF ex.raised THEN fail(500, Extract1)
                 ELSE IF ex.nsrc = 0 THEN fail(400, Extract1)
                 ELSE IF fault = "analysis" THEN fail(500, [Extract1 EXCEPT !.check = 1])
                 ELSE LET g == GroupAnalysis(TRUE, lib, raw, r)
                      IN  resp("report", 200,
                               Some(format_multi_file_report(src.kind, req.source_type,
                                                             ex.nsrc, g)),
                               ex.tmp, ex.created, g.calls)

\* A multi-file request is answered: the caches, the temp directories and,
\* for the form page, the status cache take the values the handler left.
Respond(kind, req, res, st) ==
    LET form == res.page = "form_error"
    IN  /\ res.next_id <= MaxReports
        /\ Cardinality(res.tmp) <= MaxTmp
        /\ multi_report_cache' = res.cache
        /\ next_report_id' = res.next_id
        /\ tmp_dirs' = res.tmp
        /\ rendered' = IF res.report_id # None
                       THEN DictPut(rendered, res.report_id[1],
                                    [text |-> res.body[1], time |-> now])
                       ELSE rendered
        /\ IF form THEN BannerEffect(st) ELSE UNCHANGED statusVars
        /\ op' = [kind |-> kind, time |-> now, req |-> req, page |-> res.page,
                  status |-> res.status, report_id |-> res.report_id, body |-> res.body,
                  created |-> res.created,
                  calls |-> IF form THEN [res.calls EXCEPT !.probes = st.probes]
                            ELSE res.calls]
        /\ UNCHANGED <<now, envVars, reviewVars>>

\* The status the banner of a form page gets, the live probe answering po.
Banner(po) ==
    get_ai_status(status_cache, cache_timestamp, now, openai_installed, env_api_key, po)

\* How a request goes on once ingestion has begun: where it breaks and what
\* the backend answers.  A request that stops before is drawn with QuietRun
\* alone, a broken one with a backend that is never reached.
QuietRun == [fault |-> "none", reply |-> [throws |-> TRUE, choices |-> <<>>]]

RunsFor(begins, faults) ==
    IF begins
    THEN { run \in [fault : faults, reply : FlowReplies] :
               run.fault = "none" \/ run.reply = QuietRun.reply }
    ELSE {QuietRun}

\* The source has files to analyse.
HasSources(src) == src.valid /\ src.nsrc > 0

ReviewResultsPost ==
    \E up \in Uploads, mode \in Modes, po \in FlowProbeOutcomes :
        \E run \in RunsFor(up.kind # "none", Faults) :
            Respond("review_results_post", [files |-> up, mode |-> mode],
                    review_results_post(up, mode, run.fault, run.reply, multi_report_cache,
                                        now, next_report_id, tmp_dirs,
                                        openai_installed, env_api_key),
                    Banner(po))

\* POST /review with folder_path or zip_path set.
ReviewPostSource ==
    \E src \in Sources, po \in FlowProbeOutcomes :
        \E run \in RunsFor(HasSources(src), AnalysisFaults) :
            Respond("review_post", [source |-> src],
                    _handle_multi_file_analysis_html(src, run.fault, run.reply,
                                                     multi_report_cache, next_report_id,
                                                     tmp_dirs, openai_installed, env_api_key),
                    Banner(po))

ReviewMulti ==
    \E src \in Sources \cup {NoSource}, po \in FlowProbeOutcomes :
        \E run \in RunsFor(HasSources(src), AnalysisFaults) :
            Respond("review_multi", [source |-> src],
                    review_multi(src, run.fault, run.reply, multi_report_cache,
                                 next_report_id, tmp_dirs, openai_installed, env_api_key),
                    Banner(po))

ReviewMultiDownload ==
    \E req \in DownloadRequests, po \in FlowProbeOutcomes :
        \E run \in RunsFor(req.source # None /\ HasSources(req.source[1]), AnalysisFaults) :
            Respond("review_multi_download", req,
                    review_multi_download(req, run.fault, run.reply, multi_report_cache,
                                          next_report_id, tmp_dirs,
                                          openai_installed, env_api_key),
                    Banner(po))

InitUpload ==
    /\ now = 0
    /\ openai_installed = TRUE
    /\ env_api_key \in { k \in FlowEnvKeys : k.chars = 40 }
    /\ status_cache = None
    /\ cache_timestamp = 0
    /\ last_probe = None
    /\ InitReviewIdle
    /\ InitUploadIdle
    /\ op = NoOp

\* The requests that read or write the report cache, and the clock.
NextUpload ==
    \/ Elapse(UploadTicks, MaxUploadTime)
    \/ ReviewResultsPost
    \/ ReviewMultiDownload

SpecUpload == InitUpload /\ [][NextUpload]_vars

\* Every request that ingests a folder, a zip or an upload; no handler's
\* treatment of its temp directory looks at the clock.
NextIngest ==
    \/ ReviewResultsPost
    \/ ReviewPostSource
    \/ ReviewMulti
    \/ ReviewMultiDownload

SpecIngest == InitUpload /\ [][NextIngest]_vars

-----------------------------------------------------------------------------
(* Claims about the report cache and the temp directories *)

\* The last request was a download of an uploaded report by a non-blank id.
UploadDownload ==
    /\ op.kind = "review_multi_download"
    /\ op.req.source_type = "upload"
    /\ op.req.report_id # None
    /\ ~op.req.report_id[1].blank

\* The report id the last download asked for.
AskedId == op.req.report_id[1].id

\* C3: a download of an uploaded report answers 404 whenever its report id
\* is unknown or the results page with that id was rendered more than 300 s
\* before the download.
C3_ExpiredReport404 ==
    UploadDownload =>
        ((AskedId \notin DOMAIN rendered \/ op.time - rendered[AskedId].time > 300)
            => op.status = 404)

\* C4: a download of an uploaded report within 300 s of the results page that
\* carried its id returns the text stored then, and calls neither the
\* extractor, the checker service, the relationship detector nor the AI
\* service, whatever other reports were stored in between.
C4_FreshReportServed ==
    (UploadDownload /\ AskedId \in DOMAIN rendered
        /\ op.time - rendered[AskedId].time <= 300) =>
        /\ op.status = 200
        /\ op.body = Some(rendered[AskedId].text)
        /\ op.calls = NoIngestCalls

\* C4 witness: report 0 is downloaded 200 s after its upload, after another
\* upload stored report 1 with another text.
C4_Witness ==
    /\ UploadDownload
    /\ AskedId = 0
    /\ op.status = 200
    /\ op.time - rendered[0].time = 200
    /\ 1 \in DOMAIN rendered
    /\ rendered[1].text # rendered[0].text
    /\ op.body = Some(rendered[0].text)

\* C5: the temp directory a request created during ingestion no longer
\* exists once the request has finished.
C5_TempDirsRemoved ==
    (op.kind \in {"review_post", "review_multi", "review_multi_download",
                  "review_results_post"}
        /\ op.created # None)
        => op.created[1] \notin tmp_dirs

\* A request created a temp directory and removed it.
C5_SomeRemoved ==
    /\ op.kind \in {"review_multi", "review_results_post"}
    /\ op.created # None
    /\ op.created[1] \notin tmp_dirs

-----------------------------------------------------------------------------
(* run_check on its own *)

\* The AnalyzeRequest bodies run_check is driven with: file_path absent,
\* empty, relative or absolute; code absent, empty or not; language absent,
\* empty or not.
RunCheckRequests ==
    [file_path : {None, Some(<<>>), Some(RelA), Some(PathA)},
     code : {None, Some(""), Some("c1")},
     language : {None, Some(""), Some("python")}]

\* One call of run_check(req).
RunCheckCall ==
    \E req \in RunCheckRequests :
        LET rc == run_check(req, fs)
        IN  /\ op' = [kind |-> "run_check", req |-> req, disk |-> fs,
                      status |-> rc.status, issues |-> rc.issues, code |-> rc.code,
                      lang |-> rc.lang, checks |-> rc.checks, temps |-> rc.temps]
            /\ UNCHANGED <<now, envVars, statusVars, reviewVars, uploadVars>>

NextRunCheck ==
    \/ WriteFile
    \/ DeleteFile
    \/ RunCheckCall

SpecRunCheck == InitReview /\ [][NextRunCheck]_vars

\* The request of the last run_check call asks for code and language.
AsksCode ==
    /\ op.req.code # None
    /\ op.req.language # None
    /\ op.req.language[1] # ""

\* What run_check answers when it takes the file_path of its request.
TakesFilePath ==
    LET p == op.req.file_path[1]
    IN  IF ~is_absolute(p) THEN op.status = 400
        ELSE IF ~exists(op.disk, p) THEN op.status = 404
        ELSE /\ op.status = 200
             /\ op.issues = Some(analyze_text(op.disk[p][1]))
             /\ op.temps = 0

\* What run_check answers when it does not take the file_path.
TakesCodeOrRejects ==
    IF AsksCode
    THEN /\ op.status = 200
         /\ op.issues = Some(analyze_text(op.req.code[1]))
         /\ op.code = op.req.code
    ELSE op.status = 400

\* In the rejected cases no checker ran and no temp file was written.
RejectedQuietly == op.status # 200 => (op.checks = 0 /\ op.temps = 0)

\* C11 as stated: a file_path that is present is used (400 if not absolute,
\* 404 if missing) even with code and language supplied; else code with a
\* non-empty language is analysed; else 400.  Rejections run no checker and
\* write no temp file.
C11_RunCheckPrecedence ==
    op.kind = "run_check" =>
        /\ IF op.req.file_path # None THEN TakesFilePath ELSE TakesCodeOrRejects
        /\ RejectedQuietly

\* C11: the same precedence, an empty file_path counting as absent.
C11_RunCheckPrecedenceNonEmpty ==
    op.kind = "run_check" =>
        /\ IF op.req.file_path # None /\ op.req.file_path[1] # <<>>
           THEN TakesFilePath ELSE TakesCodeOrRejects
        /\ RejectedQuietly

\* C11 witness: file_path, code and language all given, the file is missing,
\* and the call ends in 404.
C11_Witness ==
    /\ op.kind = "run_check"
    /\ op.req.file_path = Some(PathA)
    /\ AsksCode
    /\ op.status = 404
    /\ op.checks = 0


\* --------------------------------------------------------------------------
\* The checker library (src/cross_platform_checker)
\* --------------------------------------------------------------------------
\* A source line is a sequence of lexical pieces, cut so that every substring
\* and every regular expression the checkers look for begins and ends at a
\* piece boundary: "x in line" is "x is a piece of line", and a column is the
\* number of characters in the pieces before the match.

Quote == "\""

\* The lines the analysed files are made of.
Line ==
    [assign  |-> <<"path", " = ", Quote, "/home/", "user/app", Quote>>,
     print   |-> <<"print(", "path", ")">>,
     open    |-> <<"open(", "path", ")">>,
     exec    |-> <<"exec(", "code_str", ")">>,
     logenv  |-> <<"log(", Quote, "%TEMP%", Quote, ")">>,
     getenv  |-> <<"getenv(", Quote, "%TEMP%", Quote, ")">>,
     comment |-> <<" ", "#", " ", "exec(", "code_str", ")">>,
     cond    |-> <<"if ", "path", " == ", Quote, "/home/", "user/app", Quote, ":">>,
     openlit |-> <<"open(", Quote, "/home/", "user/app", Quote, ")">>,
     handle  |-> <<"HANDLE", " ", "h", ";">>]

\* The pieces that are identifiers (\w+).
Idents == {"path", "code_str", "h", "HANDLE"}

RECURSIVE Flatten(_)
Flatten(ss) == IF ss = <<>> THEN <<>> ELSE Head(ss) \o Flatten(Tail(ss))

\* m.start(): the column at which piece i of the line begins.
RECURSIVE Col(_, _)
Col(line, i) == IF i = 1 THEN 0 ELSE Col(line, i - 1) + Len(line[i - 1])

\* any(x in line for x in pieces)
Has(line, pieces) == \E i \in DOMAIN line : line[i] \in pieces

\* The least index of the line that satisfies Test, 0 if none (re.search).
First(line, Test(_)) ==
    IF \E i \in DOMAIN line : Test(i)
    THEN CHOOSE i \in DOMAIN line : Test(i) /\ \A j \in 1..(i - 1) : ~Test(j)
    ELSE 0

is_comment(line) ==
    LET stripped == StripChars(line)
    IN  stripped # <<>> /\ stripped[1] \in {"#", "//", "/*", "*"}

FILE_PATH_CONTEXT_PYTHON ==
    {"open(", "with open", "Path(", "pathlib.", "os.path.", "exists(", "isfile(",
     "isdir(", "chdir(", "listdir(", "glob(", "rglob(", "mkdir", "unlink(",
     "rename(", "shutil.", "expanduser(", "abspath(", "realpath(", "read(", "write("}

\* Only python among the languages with a context table is analysed here;
\* c, cpp and unknown have no table and are never in file-path context.
is_file_path_context(line, language) ==
    IF language = "python" THEN Has(line, FILE_PATH_CONTEXT_PYTHON) ELSE FALSE

URL_OR_DISPLAY_INDICATORS ==
    {"http://", "https://", "://", "url", "href", "fetch(", "request(", "endpoint",
     "api.", "GET", "POST", "print(", "log(", "message", "display"}

\* matched is the matched text as pieces, quotes included (<<>> if not given).
is_likely_url_or_display(line, matched) ==
    \/ Has(line, URL_OR_DISPLAY_INDICATORS)
    \/ LET s == SelectSeq(matched, LAMBDA c : c \notin {Quote, " "})
       IN  Has(s, {"://"}) \/ (s # <<>> /\ s[1] \in {"http", "http://", "https://", "//"})

\* Position i of the line lies inside a string literal: an odd number of
\* quotes precedes it.
position_inside_string_literal(line, i) ==
    Cardinality({j \in 1..(i - 1) : line[j] = Quote}) % 2 = 1

\* The index of the quote closing the literal opened at i, 0 if none.
ClosingQuote(line, i) ==
    IF \E j \in (i + 1)..Len(line) : line[j] = Quote
    THEN CHOOSE j \in (i + 1)..Len(line) :
             line[j] = Quote /\ \A k \in (i + 1)..(j - 1) : line[k] # Quote
    ELSE 0

\* (\w+)\s*=\s*["'][^"']*["'] begins at piece i; its group 1 is line[i].
AssignsLiteralAt(line, i) ==
    /\ i + 2 <= Len(line)
    /\ line[i] \in Idents
    /\ line[i + 1] \in {"=", " = "}
    /\ line[i + 2] = Quote
    /\ ClosingQuote(line, i + 2) # 0

\* _VAR_PATH_PYTHON / the pruner's file_io_var begin at piece i: a file call
\* whose first argument is an identifier, not a string literal.
VarPathAt(line, i) ==
    /\ i + 2 <= Len(line)
    /\ line[i] \in {"open(", "Path(", "exists(", "isfile(", "isdir(", "chdir(",
                    "listdir(", "expanduser(", "abspath(", "realpath("}
    /\ line[i + 1] \in Idents
    /\ line[i + 2] \in {")", ","}

has_variable_path_argument(line, language) ==
    IF language = "python" THEN \E i \in DOMAIN line : VarPathAt(line, i) ELSE FALSE

RootedPrefixes == {"/home/", "/Users/", "/usr/", "/etc/", "/tmp/", "/var/"}

\* literal: the pieces between the quotes.
looks_like_file_path(literal) ==
    LET s == SelectSeq(StripChars(literal), LAMBDA c : c # Quote)
    IN  /\ s # <<>>
        /\ \/ s[1] \in RootedPrefixes \cup {"/", "\\", "C:\\"}
           \/ Has(s, RootedPrefixes \cup {"C:\\"})

Issue(severity, line_number, column, message, code, suggestion, category) ==
    [severity |-> severity, line_number |-> line_number, column |-> column,
     message |-> message, code |-> code, suggestion |-> suggestion,
     category |-> category]

Candidate(severity, line_number, column, message, code, suggestion, category, context_type, context_data) ==
    [severity |-> severity, line_number |-> line_number, column |-> column,
     message |-> message, code |-> code, suggestion |-> suggestion,
     category |-> category, context_type |-> context_type,
     context_data |-> context_data]

\* What one _run_checks leaves behind: the issues it added and the
\* candidates it appended to the shared list.
Found(issues, candidates) == [issues |-> issues, candidates |-> candidates]

\* The per-line results of a rule, in line order.
PerLine(lines, Rule(_)) == Flatten([i \in 1..Len(lines) |-> Rule(i)])

\* ---- the general checkers ------------------------------------------------
\* Each checker is its _run_checks: from the lines and the language to the
\* issues it adds and the candidates it appends, in the order it adds them.

HardcodedPatterns ==
    << <<"C:\\", "Windows drive letter">>, <<"/home/", "Unix home directory">>,
       <<"/Users/", "macOS home directory">>, <<"/usr/", "Unix system directory">>,
       <<"/etc/", "Unix config directory">>, <<"/tmp/", "Unix temp directory">>,
       <<"/var/", "Unix variable directory">> >>

PathChecker(lines, language) ==
    LET lang == IF language = "" THEN "python" ELSE language
        Skipped(line) == is_comment(line) \/ is_likely_url_or_display(line, <<>>)
        QuoteThen(line, pieces) ==
            \E i \in 1..(Len(line) - 1) : line[i] = Quote /\ line[i + 1] \in pieces
        Backslash(i) ==
            LET line == lines[i]
                at == First(line, LAMBDA j : line[j] \in {"C:\\", "\\"})
            IN  IF /\ at # 0
                   /\ QuoteThen(line, {"C:\\"})
                   /\ ~Has(line, {"\\n", "\\t", "\\r", "\\b", "\\f", "\\v", "\\a",
                                  "\\\"", "\\'", "\\\\"})
                THEN << Issue("ERROR", i, Col(line, at) + Len(line[at]) - 1,
                              "Hardcoded Windows path separator (backslash) detected",
                              StripChars(line),
                              "Use os.path.join() (Python), std::filesystem::path (C++), or path.join() (Node.js)",
                              "PATH_SEPARATOR") >>
                ELSE <<>>
        UnixStyle(i) ==
            LET line == lines[i]
            IN  IF /\ QuoteThen(line, RootedPrefixes \cup {"/", "\\", "C:\\"})
                   /\ Has(line, {"/home/", "/usr/", "/etc/"})
                THEN << Issue("WARNING", i, 0, "Hardcoded Unix-style path detected",
                              StripChars(line),
                              "Use platform-agnostic path APIs instead",
                              "HARDCODED_PATH") >>
                ELSE <<>>
        Separators(i) ==
            IF Skipped(lines[i]) \/ ~is_file_path_context(lines[i], lang) THEN <<>>
            ELSE Backslash(i) \o UnixStyle(i)
        \* the first pattern of the list found in the line, 0 if none
        Pattern(line) ==
            First(HardcodedPatterns,
                  LAMBDA k : QuoteThen(line, {HardcodedPatterns[k][1]}))
        Message(line) ==
            "Hardcoded " \o HardcodedPatterns[Pattern(line)][2] \o " path detected"
        Advice == "Use environment variables or platform APIs (os.path.expanduser, getenv('HOME'), etc.)"
        Hit(i) == ~Skipped(lines[i]) /\ Pattern(lines[i]) # 0
        Hardcoded(i) ==
            IF Hit(i) /\ is_file_path_context(lines[i], lang)
            THEN << Issue("ERROR", i, 0, Message(lines[i]), StripChars(lines[i]),
                          Advice, "HARDCODED_PATH") >>
            ELSE <<>>
        Deferred(i) ==
            LET line == lines[i]
                m == First(line, LAMBDA j : AssignsLiteralAt(line, j))
            IN  IF Hit(i) /\ ~is_file_path_context(line, lang) /\ m # 0
                THEN << Candidate("ERROR", i, 0, Message(line), StripChars(line),
                                  Advice, "HARDCODED_PATH", "variable_path",
                                  [var |-> line[m]]) >>
                ELSE <<>>
    IN  Found(PerLine(lines, Separators) \o PerLine(lines, Hardcoded),
              PerLine(lines, Deferred))

\* \b before piece i: the piece before it is not an identifier.
WordStart(line, i) == i = 1 \/ line[i - 1] \notin Idents

\* _check_platform_specific_apis on the names fork, exec and unlink; the
\* other names of its table, and the names the import, threading, network
\* and GUI rules look for, are pieces of none of the lines.
APIChecker(lines, language) ==
    LET apis == <<"fork", "exec", "unlink">>
        Matches(line, api) ==
            {j \in DOMAIN line : /\ line[j] = api \o "("
                                 /\ WordStart(line, j)
                                 /\ ~position_inside_string_literal(line, j)
                                 /\ ~(api = "exec" /\ language = "python")}
        FirstMatch(line, api) ==
            First(line, LAMBDA j : j \in Matches(line, api))
        Used(i, k) ==
            /\ ~is_comment(lines[i])
            /\ ~(language = "python" /\ apis[k] = "unlink")
            /\ Matches(lines[i], apis[k]) # {}
        Deferring(k) == apis[k] = "exec" /\ language \in {"c", "cpp"}
        Message(k) == "Platform-specific API detected: " \o apis[k] \o " (unix)"
        Advice == "Use cross-platform alternatives or add platform-specific guards (#ifdef, if platform.system(), etc.)"
        Direct(i) ==
            Flatten([k \in DOMAIN apis |->
                IF Used(i, k) /\ ~Deferring(k)
                THEN << Issue("ERROR", i, Col(lines[i], FirstMatch(lines[i], apis[k])),
                              Message(k), StripChars(lines[i]), Advice,
                              "PLATFORM_API") >>
                ELSE <<>>])
        Deferred(i) ==
            Flatten([k \in DOMAIN apis |->
                IF Used(i, k) /\ Deferring(k)
                THEN << Candidate("ERROR", i,
                                  Col(lines[i], FirstMatch(lines[i], apis[k])),
                                  Message(k), StripChars(lines[i]), Advice,
                                  "PLATFORM_API", "exec_call", <<>>) >>
                ELSE <<>>])
    IN  Found(PerLine(lines, Direct), PerLine(lines, Deferred))

\* _check_file_locking and _check_encoding_issues; _check_file_encoding
\* needs "mode=" in the line, a piece of none of the lines.
FileChecker(lines, language) ==
    LET Locking(i) ==
            IF Has(lines[i], {"flock", "fcntl"}) /\ ~is_comment(lines[i])
            THEN << Issue("WARNING", i, 0, "Unix-specific file locking API detected",
                          StripChars(lines[i]),
                          "Use cross-platform file locking or platform-specific guards",
                          "FILE_LOCKING") >>
            ELSE <<>>
        Encoding(i) ==
            IF \E j \in 1..(Len(lines[i]) - 2) :
                   /\ lines[i][j] = "encoding="
                   /\ lines[i][j + 1] = Quote
                   /\ lines[i][j + 2] \in {"windows-1252", "cp1252", "latin1"}
            THEN << Issue("WARNING", i, 0, "Platform-specific encoding detected",
                          StripChars(lines[i]),
                          "Use UTF-8 encoding for maximum cross-platform compatibility",
                          "ENCODING") >>
            ELSE <<>>
    IN  Found(PerLine(lines, Locking) \o PerLine(lines, Encoding), <<>>)

PLATFORM_VAR_NAMES == <<"USERPROFILE", "APPDATA", "TEMP", "TMP">>

\* %[A-Z_]+% : the pieces of that shape are the %NAME% of the names above.
IsEnvSyntax(piece) ==
    \E k \in DOMAIN PLATFORM_VAR_NAMES : piece = "%" \o PLATFORM_VAR_NAMES[k] \o "%"

\* check() is always given the candidate list, so both rules defer.
EnvChecker(lines, language) ==
    LET Percent(v) == "%" \o v \o "%"
        Syntax(i) ==
            IF is_comment(lines[i]) THEN <<>>
            ELSE Flatten([j \in DOMAIN lines[i] |->
                IF IsEnvSyntax(lines[i][j])
                THEN << Candidate("ERROR", i, Col(lines[i], j),
                                  "Windows-specific environment variable syntax (%VAR%) detected",
                                  StripChars(lines[i]),
                                  "Use os.getenv() (Python), getenv() (C++), or process.env (Node.js)",
                                  "ENV_VAR", "string_env_syntax",
                                  [literal |-> lines[i][j], column |-> Col(lines[i], j)]) >>
                ELSE <<>>])
        Advice(v) ==
            CASE v = "USERPROFILE" -> "Use HOME on Unix/macOS"
              [] v = "APPDATA" -> "Use XDG_CONFIG_HOME on Linux, ~/Library on macOS"
              [] OTHER -> "Use TMPDIR on Unix/macOS"
        Named(i) ==
            IF is_comment(lines[i]) THEN <<>>
            ELSE Flatten([k \in DOMAIN PLATFORM_VAR_NAMES |->
                LET v == PLATFORM_VAR_NAMES[k]
                    m == First(lines[i], LAMBDA j : lines[i][j] \in {v, Percent(v)})
                    col == IF m = 0 THEN 0
                           ELSE Col(lines[i], m) + (IF lines[i][m] = v THEN 0 ELSE 1)
                IN  IF m # 0
                    THEN << Candidate("WARNING", i, col,
                                      "Windows-specific environment variable: " \o v,
                                      StripChars(lines[i]), Advice(v), "ENV_VAR",
                                      "string_platform_var",
                                      [literal |-> v, column |-> col]) >>
                    ELSE <<>>])
    IN  Found(<<>>, PerLine(lines, Syntax) \o PerLine(lines, Named))

SystemChecker(lines, language) ==
    LET system_calls == {"system(", "popen(", "exec(", "execv(", "execvp(",
                         "CreateProcess", "ShellExecute", "fork()", "vfork()"}
        Advice == "Ensure command syntax is compatible across platforms or use platform-specific guards"
        \* the scan reaches piece j outside a string literal and a comment
        Scanned(line, j) ==
            /\ ~position_inside_string_literal(line, j)
            /\ \A k \in 1..(j - 1) :
                   line[k] \in {"#", "//"} => position_inside_string_literal(line, k)
        Call(i, j) ==
            /\ ~is_comment(lines[i])
            /\ lines[i][j] \in system_calls
            /\ Scanned(lines[i], j)
        Deferring(i, j) == lines[i][j] = "exec(" /\ language \in {"c", "cpp"}
        Direct(i) ==
            Flatten([j \in DOMAIN lines[i] |->
                IF Call(i, j) /\ ~Deferring(i, j)
                THEN << Issue("WARNING", i, Col(lines[i], j),
                              "System call detected: " \o lines[i][j],
                              StripChars(lines[i]), Advice, "SYSTEM_CALL") >>
                ELSE <<>>])
        Deferred(i) ==
            Flatten([j \in DOMAIN lines[i] |->
                IF Call(i, j) /\ Deferring(i, j)
                THEN << Candidate("WARNING", i, Col(lines[i], j),
                                  "System call detected: " \o lines[i][j],
                                  StripChars(lines[i]), Advice, "SYSTEM_CALL",
                                  "exec_call", <<>>) >>
                ELSE <<>>])
    IN  Found(PerLine(lines, Direct), PerLine(lines, Deferred))

\* ---- the language checkers ------------------------------------------------

PythonChecker(lines, language) ==
    LET Advice == "Use pathlib.Path or os.path.join() for cross-platform path handling"
        OsName(i) ==
            IF Has(lines[i], {"os.name"}) /\ Has(lines[i], {"nt", "posix"})
            THEN << Issue("INFO", i, 0, "Direct os.name comparison detected",
                          StripChars(lines[i]),
                          "Consider using platform.system() for more detailed platform detection",
                          "PLATFORM_DETECTION") >>
            ELSE <<>>
        \* a literal whose text has a name, a separator and a name in a row
        PathShaped(text) ==
            \/ Has(text, {"user/app"})
            \/ \E k \in 1..(Len(text) - 1) :
                   text[k] \in RootedPrefixes /\ text[k + 1] \in Idents \cup {"user/app"}
        Literal(line, j) == SubSeq(line, j, ClosingQuote(line, j))
        \* path_pattern.search(line): the piece its match starts at, 0 if none
        Match(line) ==
            First(line, LAMBDA j :
                /\ line[j] = Quote
                /\ ClosingQuote(line, j) # 0
                /\ PathShaped(Literal(line, j)))
        Considered(i) ==
            LET line == lines[i]
            IN  /\ ~Has(line, {"\\n", "\\t", "f\"", "f'"})
                /\ ~Has(line, {"os.path.join", "pathlib", "pathlib.", "Path("})
                /\ Match(line) # 0
                /\ looks_like_file_path(Literal(line, Match(line)))
                /\ ~is_likely_url_or_display(line, Literal(line, Match(line)))
        Pathlib(i) ==
            IF Considered(i) /\ is_file_path_context(lines[i], "python")
            THEN << Issue("WARNING", i, Col(lines[i], Match(lines[i])),
                          "String path concatenation detected", StripChars(lines[i]),
                          Advice, "PATH_HANDLING") >>
            ELSE <<>>
        Deferred(i) ==
            LET line == lines[i]
                m == First(line, LAMBDA j : AssignsLiteralAt(line, j))
                cond == \E j \in DOMAIN line :
                            line[j] \in {"if ", "elif "} /\ WordStart(line, j)
            IN  IF ~Considered(i) \/ is_file_path_context(line, "python") THEN <<>>
                ELSE IF m # 0
                THEN << Candidate("WARNING", i, Col(line, Match(line)),
                                  "String path concatenation detected",
                                  StripChars(line), Advice, "PATH_HANDLING",
                                  "variable_path", [var |-> line[m]]) >>
                ELSE IF cond
                THEN << Candidate("WARNING", i, Col(line, Match(line)),
                                  "String path concatenation detected",
                                  StripChars(line), Advice, "PATH_HANDLING",
                                  "string_in_condition",
                                  [column |-> Col(line, Match(line))]) >>
                ELSE <<>>
        VariablePath(i) ==
            IF /\ is_file_path_context(lines[i], "python")
               /\ ~Has(lines[i], {"Path(", "pathlib."})
               /\ ~is_likely_url_or_display(lines[i], <<>>)
               /\ has_variable_path_argument(lines[i], "python")
            THEN << Issue("WARNING", i, 0,
                          "Variable used as file path; ensure it is built with pathlib.Path or os.path.join()",
                          StripChars(lines[i]), Advice, "PATH_HANDLING") >>
            ELSE <<>>
    IN  Found(PerLine(lines, OsName) \o PerLine(lines, Pathlib)
                  \o PerLine(lines, VariablePath),
              PerLine(lines, Deferred))

\* _check_filesystem_usage and _check_windows_types; the display-server
\* symbols are pieces of none of the lines.
CppChecker(lines, language) ==
    LET Filesystem(i) ==
            IF language = "cpp" /\ Has(lines[i], {"<filesystem>", "std::filesystem"})
            THEN << Issue("INFO", i, 0, "std::filesystem usage detected (requires C++17)",
                          StripChars(lines[i]),
                          "Ensure C++17 is enabled and available on all target platforms",
                          "CPP_STANDARD") >>
            ELSE <<>>
        Typed(line, j) ==
            /\ line[j] \in {"DWORD", "HANDLE", "LPSTR"}
            /\ WordStart(line, j)
            /\ (j = Len(line) \/ line[j + 1] \notin Idents)
        WindowsType(i) ==
            LET m == First(lines[i], LAMBDA j : Typed(lines[i], j))
            IN  IF ~is_comment(lines[i]) /\ m # 0
                THEN << Issue("ERROR", i, Col(lines[i], m),
                              "Windows-specific type detected", StripChars(lines[i]),
                              "Use standard C++ types or add platform guards",
                              "TYPE_DEFINITION") >>
                ELSE <<>>
    IN  Found(PerLine(lines, Filesystem) \o PerLine(lines, WindowsType), <<>>)

\* ---- the context pruner ---------------------------------------------------

\* var_name -> <<line_num, literal, kind>> of its last classified literal
\* assignment.
_build_assignment_map_python(lines) ==
    LET _classify_literal(literal) ==
            IF \E k \in DOMAIN literal : IsEnvSyntax(literal[k]) THEN "env_syntax"
            ELSE IF /\ Len(StripChars(literal)) = 1
                    /\ \E k \in DOMAIN PLATFORM_VAR_NAMES :
                           StripChars(literal)[1] = PLATFORM_VAR_NAMES[k]
                 THEN "platform_var"
            ELSE IF looks_like_file_path(literal) THEN "path"
            ELSE "other"
        m(i) == First(lines[i], LAMBDA j : AssignsLiteralAt(lines[i], j))
        literal(i) == SubSeq(lines[i], m(i) + 3, ClosingQuote(lines[i], m(i) + 2) - 1)
        Assigns(i, var) ==
            /\ ~is_comment(lines[i])
            /\ m(i) # 0
            /\ lines[i][m(i)] = var
            /\ _classify_literal(literal(i)) # "other"
        assigned == {var \in Idents : \E i \in DOMAIN lines : Assigns(i, var)}
        last(var) == CHOOSE i \in DOMAIN lines :
                         Assigns(i, var) /\ \A k \in DOMAIN lines : Assigns(k, var) => k <= i
    IN  [var \in assigned |->
            <<last(var), literal(last(var)), _classify_literal(literal(last(var)))>>]

\* var_name -> the usage types recorded for it, in order (<<>> if none).
_build_usage_map_python(lines) ==
    LET EnvVarAt(line, j) ==
            /\ j + 2 <= Len(line)
            /\ line[j] = "getenv("
            /\ line[j + 1] \in Idents
            /\ line[j + 2] \in {")", ","}
        Uses(i, var, Test(_, _), type) ==
            Flatten([j \in DOMAIN lines[i] |->
                IF Test(lines[i], j) /\ lines[i][j + 1] = var THEN <<type>> ELSE <<>>])
        OnLine(var) ==
            [i \in DOMAIN lines |->
                IF is_comment(lines[i]) THEN <<>>
                ELSE Uses(i, var, VarPathAt, "file_io") \o Uses(i, var, EnvVarAt, "env_api")]
    IN  [var \in Idents |-> Flatten(OnLine(var))]

_line_usage_types(line) ==
    (IF is_file_path_context(line, "python") THEN {"file_io"} ELSE {})
    \cup (IF Has(line, {"getenv(", "os.environ", "os.getenv(", "process.env",
                        "subprocess.", "environ[", "environ.get("})
          THEN {"env_api"} ELSE {})
    \cup (IF Has(line, {"print(", "log(", "logger.", "message", "display", "repr("})
          THEN {"display"} ELSE {})

Includes(seq, x) == \E k \in DOMAIN seq : seq[k] = x

_should_promote_variable_path(context_data, assignment_map, usage_map) ==
    IF "var" \notin DOMAIN context_data THEN TRUE
    ELSE LET var == context_data.var
             usages == IF var \in DOMAIN usage_map THEN usage_map[var] ELSE <<>>
         IN  IF var \in DOMAIN assignment_map /\ assignment_map[var][3] # "path"
             THEN FALSE
             ELSE IF usages = <<>> THEN TRUE
             ELSE IF Includes(usages, "file_io") THEN TRUE
             ELSE IF /\ Includes(usages, "display")
                     /\ ~Includes(usages, "file_io")
                     /\ ~Includes(usages, "env_api")
             THEN FALSE
             ELSE TRUE

_should_promote_string_in_condition(line_num, lines, usage_map) ==
    IF line_num < 1 \/ line_num > Len(lines) THEN FALSE
    ELSE IF is_file_path_context(lines[line_num], "python") THEN TRUE
    ELSE \E var \in DOMAIN usage_map :
             Includes(usage_map[var], "file_io") /\ Has(lines[line_num], {var})

_should_promote_string_env_or_platform(line_num, lines) ==
    LET types == IF line_num \in DOMAIN lines
                 THEN _line_usage_types(lines[line_num]) ELSE {}
    IN  IF "env_api" \in types THEN TRUE
        ELSE IF "display" \in types /\ "file_io" \notin types THEN FALSE
        ELSE TRUE

\* prune that hands back every candidate, the last one first.
prune_reversed(lines, language, candidates) ==
    [k \in DOMAIN candidates |->
        LET c == candidates[Len(candidates) + 1 - k]
        IN  Issue(c.severity, c.line_number, c.column, c.message, c.code,
                  c.suggestion, c.category)]

\* ContextPruner(lines, language, candidates).prune()
prune(lines, language, candidates) ==
    LET assignment_map ==
            IF language = "python" THEN _build_assignment_map_python(lines) ELSE <<>>
        usage_map ==
            IF language = "python" THEN _build_usage_map_python(lines) ELSE <<>>
        promote(c) ==
            CASE c.context_type = "variable_path" ->
                     _should_promote_variable_path(c.context_data, assignment_map,
                                                   usage_map)
              [] c.context_type = "string_in_condition" ->
                     _should_promote_string_in_condition(c.line_number, lines, usage_map)
              [] c.context_type \in {"string_env_syntax", "string_platform_var"} ->
                     _should_promote_string_env_or_platform(c.line_number, lines)
              [] OTHER -> TRUE
    IN  Flatten([k \in DOMAIN candidates |->
            IF promote(candidates[k])
            THEN << Issue(candidates[k].severity, candidates[k].line_number,
                          candidates[k].column, candidates[k].message,
                          candidates[k].code, candidates[k].suggestion,
                          candidates[k].category) >>
            ELSE <<>>])

\* ---- the orchestrator (main_checker.py) ------------------------------------

\* self.checkers with APIChecker ahead of PathChecker.
GeneralCheckers_api_first ==
    <<"APIChecker", "PathChecker", "FileChecker", "EnvChecker", "SystemChecker">>

\* self.checkers, in list order.
GeneralCheckers ==
    <<"PathChecker", "APIChecker", "FileChecker", "EnvChecker", "SystemChecker">>

\* self.language_checkers.get(language): the instance registered for the
\* language, c and cpp sharing one.  Of the registered languages the analysed
\* files are python, c and cpp.
language_checkers(language) ==
    CASE language = "python" -> Some("PythonChecker")
      [] language \in {"c", "cpp"} -> Some("CppChecker")
      [] OTHER -> None

_run_checks(checker, lines, language) ==
    CASE checker = "PathChecker" -> PathChecker(lines, language)
      [] checker = "APIChecker" -> APIChecker(lines, language)
      [] checker = "FileChecker" -> FileChecker(lines, language)
      [] checker = "EnvChecker" -> EnvChecker(lines, language)
      [] checker = "SystemChecker" -> SystemChecker(lines, language)
      [] checker = "PythonChecker" -> PythonChecker(lines, language)
      [] checker = "CppChecker" -> CppChecker(lines, language)

\* BaseChecker.check that does not reset self.issues.
BaseChecker_check_keeps_issues(held, candidates, found) ==
    [issues |-> held \o found.issues, candidates |-> candidates \o found.candidates]

\* BaseChecker.check: self.issues = [], self.candidates = candidates, then
\* _run_checks adds to both; held is what self.issues was before the call.
BaseChecker_check(held, candidates, found) ==
    LET issues == <<>>
    IN  [issues |-> issues \o found.issues, candidates |-> candidates \o found.candidates]

\* A new CrossPlatformChecker: its own issues and language, and self.issues
\* of each checker instance it holds.
FreshChecker ==
    [issues |-> <<>>, language |-> None,
     held |-> [c \in {"PathChecker", "APIChecker", "FileChecker", "EnvChecker",
                      "SystemChecker", "PythonChecker", "CppChecker"} |-> <<>>]]

\* A file on disk: missing, present but unreadable, or its lines.
FileState(there, readable, lines) ==
    [exists |-> there, readable |-> readable, lines |-> lines]

Checking(ret, self, ran, pruned) ==
    [ret |-> ret, self |-> self, ran |-> ran, pruned |-> pruned]

\* check_file(file_path) on the checker self, file being what the path holds:
\* the returned list, the checker afterwards, the checkers run in order and
\* the number of pruner runs.
check_file(self, file_path, file) ==
    LET language == detect_language(file_path)
        order == GeneralCheckers \o language_checkers(language)
        \* return self.issues
        Done(issues, held, pruned) ==
            Checking(issues,
                     [issues |-> issues, language |-> Some(language), held |-> held],
                     order, pruned)
        \* if candidates: self.issues.extend(ContextPruner(...).prune())
        Prune(issues, candidates, held) ==
            IF candidates # <<>>
            THEN Done(issues \o prune(file.lines, language, candidates), held, 1)
            ELSE Done(issues, held, 0)
        \* self.issues.extend(issues) for each checker, in order
        Extend(checked) ==
            Prune(Flatten([k \in DOMAIN order |-> checked[k].issues]),
                  checked[Len(order)].candidates,
                  [c \in DOMAIN self.held |->
                      IF \E k \in DOMAIN order : order[k] = c
                      THEN checked[CHOOSE k \in DOMAIN order : order[k] = c].issues
                      ELSE self.held[c]])
        \* checker.check(file_path, lines, self.language, candidates), found[k]
        \* being what the k-th checker's _run_checks adds
        Check(found) ==
            Extend([k \in DOMAIN order |->
                       BaseChecker_check(self.held[order[k]],
                                         Flatten([j \in 1..(k - 1) |-> found[j].candidates]),
                                         found[k])])
    IN  IF ~file.exists THEN Checking(<<>>, [self EXCEPT !.issues = <<>>], <<>>, 0)
        ELSE IF ~file.readable
        THEN Checking(<< Issue("ERROR", 0, 0, "Could not read file: Permission denied",
                               "", "", "FILE_IO") >>,
                      [self EXCEPT !.issues = <<>>, !.language = Some(language)], <<>>, 0)
        ELSE Check([k \in DOMAIN order |-> _run_checks(order[k], file.lines, language)])

\* check_files that stops at the first file it cannot analyse.
RECURSIVE check_files_stops(_, _, _)
check_files_stops(self, file_paths, disk) ==
    IF file_paths = <<>> THEN [results |-> <<>>, self |-> self]
    ELSE LET p == Head(file_paths)
             Put(one, rest) ==
                 [results |-> DictPut(rest.results, p,
                                      IF p \in DOMAIN rest.results
                                      THEN rest.results[p] ELSE one.ret),
                  self |-> rest.self]
             Go(one) ==
                 Put(one, IF disk[p].exists /\ disk[p].readable
                          THEN check_files_stops(one.self, Tail(file_paths), disk)
                          ELSE [results |-> <<>>, self |-> one.self])
         IN  Go(check_file(self, p, disk[p]))

\* check_files(file_paths): results[file_path] = self.check_file(file_path)
\* for each path in turn, a later occurrence of a path replacing an earlier.
RECURSIVE check_files(_, _, _)
check_files(self, file_paths, disk) ==
    IF file_paths = <<>> THEN [results |-> <<>>, self |-> self]
    ELSE LET p == Head(file_paths)
             Put(one, rest) ==
                 [results |-> DictPut(rest.results, p,
                                      IF p \in DOMAIN rest.results
                                      THEN rest.results[p] ELSE one.ret),
                  self |-> rest.self]
             Go(one) == Put(one, check_files(one.self, Tail(file_paths), disk))
         IN  Go(check_file(self, p, disk[p]))

\* ---- the library on its own -------------------------------------------------

MaxLines == 2
MaxBatch == 2
MaxCandidates == 2

\* The sequences over S of length at most n.
SeqsUpTo(S, n) == UNION {[1..k -> S] : k \in 0..n}

\* The paths analysed: one per language, and one of no known language.
LibraryPaths == { <<"/", "a", ext>> : ext \in {".py", ".cpp", ".c", ".txt"} }

Missing == FileState(FALSE, FALSE, <<>>)
Unreadable == FileState(TRUE, FALSE, <<>>)

\* The calls asked of the checker: a path and what it holds for check_file;
\* a disk, a batch of its paths and whether the checker has analysed a file
\* before for check_files; lines, language and candidates for the pruner.
CheckFileInputs ==
    [kind : {"ask_check_file"}, path : LibraryPaths,
     file : {Missing, Unreadable}
            \cup {FileState(TRUE, TRUE, ls) :
                     ls \in SeqsUpTo({Line[k] : k \in DOMAIN Line}, MaxLines)}]

\* The files of a batch: missing, unreadable, or one line long.
BatchFiles ==
    {Missing, Unreadable}
    \cup {FileState(TRUE, TRUE, <<Line[k]>>) : k \in {"openlit", "handle"}}

CheckFilesInputs ==
    {[kind |-> "ask_check_files", disk |-> disk, batch |-> batch, used |-> used] :
        disk \in [LibraryPaths \ {<<"/", "a", ".txt">>} -> BatchFiles],
        batch \in SeqsUpTo(LibraryPaths \ {<<"/", "a", ".txt">>}, MaxBatch),
        used \in BOOLEAN}

\* The candidates handed to the pruner: one of every context type on line 1,
\* and one on line 2.
CandidatePool ==
    {Candidate("WARNING", 1, 0, "found " \o t, <<"code">>, "advice", "CATEGORY", t,
               IF t = "variable_path" THEN [var |-> "path"] ELSE <<>>) :
        t \in {"variable_path", "string_in_condition", "string_env_syntax",
               "string_platform_var", "exec_call"}}
    \cup {Candidate("ERROR", 2, 4, "found later", <<"code">>, "advice", "CATEGORY",
                    "string_env_syntax", <<>>)}

PruneInputs ==
    [kind : {"ask_prune"},
     lines : {<<Line.logenv>>, <<Line.getenv>>, <<Line.assign, Line.open>>,
              <<Line.assign, Line.print>>, <<Line.cond, Line.open>>, <<Line.cond>>},
     language : {"python", "cpp"},
     candidates : SeqsUpTo(CandidatePool, MaxCandidates)]

\* One call of check_file on a new checker.
CheckFileCall ==
    /\ op.kind = "ask_check_file"
    /\ LET r == check_file(FreshChecker, op.path, op.file)
       IN  op' = [kind |-> "check_file", path |-> op.path, file |-> op.file,
                  ret |-> r.ret, ran |-> r.ran, pruned |-> r.pruned]
    /\ UNCHANGED <<now, envVars, statusVars, reviewVars, uploadVars>>

\* One call of check_files, on a new checker or on one that has analysed a
\* file before.
CheckFilesCall ==
    /\ op.kind = "ask_check_files"
    /\ LET self == IF op.used
                   THEN check_file(FreshChecker, <<"/", "a", ".cpp">>,
                                   FileState(TRUE, TRUE, <<Line.exec, Line.handle>>)).self
                   ELSE FreshChecker
           r == check_files(self, op.batch, op.disk)
       IN  op' = [kind |-> "check_files", batch |-> op.batch, disk |-> op.disk,
                  used |-> op.used, results |-> r.results]
    /\ UNCHANGED <<now, envVars, statusVars, reviewVars, uploadVars>>

\* One call of ContextPruner(lines, language, candidates).prune().
PruneCall ==
    /\ op.kind = "ask_prune"
    /\ op' = [kind |-> "prune", lines |-> op.lines, language |-> op.language,
              candidates |-> op.candidates,
              ret |-> prune(op.lines, op.language, op.candidates)]
    /\ UNCHANGED <<now, envVars, statusVars, reviewVars, uploadVars>>


\* ---- the dependency graph (app/services/relationship_detector.py) -----------

MaxFiles == 2
MaxImports == 3

\* Path.resolve(): the path without its "./" pieces.
resolve(p) == SelectSeq(p, LAMBDA c : c # "./")

\* _resolve_import by its exact-filename rule: the file of the set whose stem
\* is the import, if there is one.  The files of a set have different stems.
_resolve_import(imp, from_file, file_set) ==
    LET resolved == {resolve(p) : p \in file_set}
        named == {fp \in resolved : fp[Len(fp) - 1] = imp}
    IN  IF imp = "" \/ named = {} THEN None ELSE Some(CHOOSE fp \in named : TRUE)

\* The two appends that record "a imports b", the second left out.
AddImport_one_way(graph, a, b) ==
    [graph EXCEPT ![a].imports = Append(@, b)]

\* graph[file_str]["imports"].append(resolved_str);
\* graph[resolved_str]["imported_by"].append(file_str)
AddImport(graph, a, b) ==
    [graph EXCEPT ![a].imports = Append(@, b), ![b].imported_by = Append(@, a)]

\* build_dependency_graph(files); imports_of is what _extract_imports reads
\* from each file.
build_dependency_graph(files, imports_of) ==
    LET file_set == {files[k] : k \in DOMAIN files}
        initial == [s \in {resolve(f) : f \in file_set} |->
                       [imports |-> <<>>, imported_by |-> <<>>,
                        language |-> detect_language(s)]]
        \* the imports of all the files, in the order they are gone through
        found == Flatten([k \in DOMAIN files |->
                     [j \in DOMAIN imports_of[resolve(files[k])] |->
                         <<files[k], imports_of[resolve(files[k])][j]>>]])
        RECURSIVE Build(_, _)
        Build(graph, rest) ==
            IF rest = <<>> THEN graph
            ELSE LET file_path == Head(rest)[1]
                     resolved == _resolve_import(Head(rest)[2], file_path, file_set)
                 IN  IF resolved # None /\ resolve(resolved[1]) \in DOMAIN graph
                     THEN Build(AddImport(graph, resolve(file_path), resolve(resolved[1])),
                                Tail(rest))
                     ELSE Build(graph, Tail(rest))
    IN  Build(initial, found)

\* The batches: up to MaxFiles paths out of /a.py, its alias /./a.py and
\* /b.py, a.py importing any of a, b and zlib (not in the batch), b.py
\* importing a.
GraphInputs ==
    [kind : {"ask_graph"},
     files : SeqsUpTo({<<"/", "a", ".py">>, <<"/", "./", "a", ".py">>,
                       <<"/", "b", ".py">>}, MaxFiles),
     imports_of : {(<<"/", "a", ".py">> :> ia) @@ (<<"/", "b", ".py">> :> ib) :
                      ia \in SeqsUpTo({"a", "b", "zlib"}, MaxImports),
                      ib \in SeqsUpTo({"a"}, MaxImports)}]

\* One call of build_dependency_graph(files).
BuildGraphCall ==
    /\ op.kind = "ask_graph"
    /\ op' = [kind |-> "graph", files |-> op.files, imports_of |-> op.imports_of,
              graph |-> build_dependency_graph(op.files, op.imports_of)]
    /\ UNCHANGED <<now, envVars, statusVars, reviewVars, uploadVars>>


\* ---- the inputs of the variable_path decision ---------------------------------

\* The length of the files the decision is looked at on.
MaxDecisionLines == 3

\* The lines that assign a literal to the variable or use it: a path, a
\* %VAR% text, a platform variable name and a plain word are assigned; the
\* variable is opened, looked up in the environment, printed.
DecisionLine ==
    [path     |-> Line.assign,
     env      |-> <<"path", " = ", Quote, "%TEMP%", Quote>>,
     platform |-> <<"path", " = ", Quote, "TEMP", Quote>>,
     word     |-> <<"path", " = ", Quote, "hello", Quote>>,
     open     |-> Line.open,
     getenv   |-> <<"getenv(", "path", ")">>,
     print    |-> Line.print]

\* The variable_path candidate deferred for the variable.
PathCandidate ==
    Candidate("WARNING", 1, 7, "String path concatenation detected", <<"code">>,
              "advice", "PATH_HANDLING", "variable_path", [var |-> "path"])

DecisionInputs ==
    [kind : {"ask_prune"},
     lines : SeqsUpTo({DecisionLine[k] : k \in DOMAIN DecisionLine}, MaxDecisionLines),
     language : {"python"},
     candidates : {<<PathCandidate>>}]

InitLibrary ==
    /\ now = 0
    /\ openai_installed = FALSE
    /\ env_api_key = None
    /\ status_cache = None
    /\ cache_timestamp = 0
    /\ last_probe = None
    /\ InitReviewIdle
    /\ InitUploadIdle
    /\ op \in CheckFileInputs \cup CheckFilesInputs \cup PruneInputs \cup GraphInputs
                \cup DecisionInputs

NextLibrary ==
    \/ CheckFileCall
    \/ CheckFilesCall
    \/ PruneCall
    \/ BuildGraphCall

SpecLibrary == InitLibrary /\ [][NextLibrary]_vars

\* ---- C12 --------------------------------------------------------------------

\* C12: check_file returns the empty list for a missing path and, for a file
\* that cannot be read, exactly one Issue (ERROR, line 0, column 0, category
\* FILE_IO) with no checker run; in check_files every path of the batch is in
\* the result map, and a missing or unreadable file leaves the other paths
\* analysed as they are on their own.
C12_UnreadableAndMissing ==
    /\ op.kind = "check_file" /\ ~op.file.exists => op.ret = <<>> /\ op.ran = <<>>
    /\ op.kind = "check_file" /\ op.file.exists /\ ~op.file.readable =>
           /\ Len(op.ret) = 1
           /\ op.ret[1].severity = "ERROR"
           /\ op.ret[1].line_number = 0
           /\ op.ret[1].column = 0
           /\ op.ret[1].category = "FILE_IO"
           /\ op.ran = <<>>
           /\ op.pruned = 0
    /\ op.kind = "check_files" =>
           /\ DOMAIN op.results = {op.batch[k] : k \in DOMAIN op.batch}
           /\ \A p \in DOMAIN op.results :
                  op.disk[p].exists /\ op.disk[p].readable =>
                      op.results[p] = check_file(FreshChecker, p, op.disk[p]).ret

\* C12 witness: a batch whose first file is unreadable and whose second file
\* is analysed and has issues.
C12_Witness ==
    /\ op.kind = "check_files"
    /\ Len(op.batch) = 2
    /\ op.disk[op.batch[1]] = Unreadable
    /\ op.batch[2] # op.batch[1]
    /\ op.disk[op.batch[2]].readable
    /\ op.results[op.batch[2]] # <<>>
    /\ Len(op.results[op.batch[1]]) = 1

\* ---- C13 --------------------------------------------------------------------

\* The last check_file call was given a file it could read.
ReadFile == op.kind = "check_file" /\ op.file.exists /\ op.file.readable

\* C13: for a readable file check_file runs Path, API, File, Env, System in
\* that order, then the language checker registered for the detected
\* language if there is one, all on one candidate list, then the pruner once
\* if and only if there is a candidate; it returns the general checkers'
\* issues, the language checker's issues and the promoted issues in that
\* order.
C13_FixedOrder ==
    ReadFile =>
        LET lines == op.file.lines
            language == detect_language(op.path)
            general == <<PathChecker(lines, language), APIChecker(lines, language),
                         FileChecker(lines, language), EnvChecker(lines, language),
                         SystemChecker(lines, language)>>
            special == IF language = "python" THEN <<PythonChecker(lines, language)>>
                       ELSE IF language \in {"c", "cpp"}
                       THEN <<CppChecker(lines, language)>>
                       ELSE <<>>
            all == general \o special
            candidates == Flatten([k \in DOMAIN all |-> all[k].candidates])
        IN  /\ SubSeq(op.ran, 1, 5) = <<"PathChecker", "APIChecker", "FileChecker",
                                        "EnvChecker", "SystemChecker">>
            /\ SubSeq(op.ran, 6, Len(op.ran)) =
                   (IF language = "python" THEN <<"PythonChecker">>
                    ELSE IF language \in {"c", "cpp"} THEN <<"CppChecker">> ELSE <<>>)
            /\ op.pruned = (IF candidates # <<>> THEN 1 ELSE 0)
            /\ op.ret = Flatten([k \in DOMAIN all |-> all[k].issues])
                            \o prune(lines, language, candidates)

\* C13 witness: a python file for which a general checker, the language
\* checker and the pruner each give an issue, the promoted issue of line 1
\* coming after the issues of line 2.
C13_Witness ==
    /\ ReadFile
    /\ op.ran[6] = "PythonChecker"
    /\ op.pruned = 1
    /\ PathChecker(op.file.lines, "python").issues # <<>>
    /\ PythonChecker(op.file.lines, "python").issues # <<>>
    /\ \E k \in 1..(Len(op.ret) - 1) : op.ret[k].line_number > op.ret[k + 1].line_number

\* ---- C14 --------------------------------------------------------------------

\* C14: the issues check_files maps to a path are those check_file gives for
\* it on a new checker, whatever the other files of the batch, their order,
\* and the use made of the checker before.
C14_PerPathIndependent ==
    op.kind = "check_files" =>
        \A p \in DOMAIN op.results :
            op.results[p] = check_file(FreshChecker, p, op.disk[p]).ret

\* C14 witness: a used checker analyses a .c and a .cpp file, which share a
\* language checker, and finds issues in both.
C14_Witness ==
    /\ op.kind = "check_files"
    /\ op.used
    /\ Len(op.batch) = 2
    /\ {detect_language(op.batch[1]), detect_language(op.batch[2])} = {"c", "cpp"}
    /\ \A p \in DOMAIN op.results : op.results[p] # <<>> /\ op.disk[p].readable

\* ---- C15 --------------------------------------------------------------------

\* C15: for a language other than python, prune promotes every candidate:
\* as many issues as candidates.
C15_NonPythonPromotesAll ==
    op.kind = "prune" /\ op.language # "python" => Len(op.ret) = Len(op.candidates)

\* ---- C16 --------------------------------------------------------------------

\* The issue a promoted candidate becomes.
Promoted(c) ==
    Issue(c.severity, c.line_number, c.column, c.message, c.code, c.suggestion,
          c.category)

\* C16: what prune returns is its candidates with some left out, in their
\* order, each kept one turned into one Issue of the same severity, line,
\* column, message, code, suggestion and category.
C16_OrderPreservingSubsequence ==
    op.kind = "prune" =>
        \E kept \in SUBSET DOMAIN op.candidates :
            op.ret = Flatten([k \in DOMAIN op.candidates |->
                         IF k \in kept THEN << Promoted(op.candidates[k]) >> ELSE <<>>])

\* C16 witness: of two different candidates the first is dropped and the
\* second promoted.
C16_Witness ==
    /\ op.kind = "prune"
    /\ Len(op.candidates) = 2
    /\ op.candidates[1] # op.candidates[2]
    /\ op.ret = << Promoted(op.candidates[2]) >>

\* ---- C17, C18, C19 ------------------------------------------------------------

\* The last check_file call read a python file.
ReadPython == ReadFile /\ detect_language(op.path) = "python"

\* The numbers of the lines of the file read that are the given line.
LinesThatAre(line) == {i \in DOMAIN op.file.lines : op.file.lines[i] = line}

\* C17: in a python file that assigns a hardcoded path literal to a variable
\* and passes the variable to print and to no file call, check_file reports
\* no issue on the line of the literal.
C17_DisplayOnlyDropped ==
    /\ ReadPython
    /\ LinesThatAre(Line.assign) # {}
    /\ LinesThatAre(Line.print) # {}
    /\ \A i \in DOMAIN op.file.lines :
           ~has_variable_path_argument(op.file.lines[i], "python")
    => \A k \in DOMAIN op.ret : op.ret[k].line_number \notin LinesThatAre(Line.assign)

\* C18: for the python file that assigns a hardcoded path literal to a
\* variable and then opens the variable, check_file returns exactly one issue.
C18_OneIssueForAssignAndUse ==
    ReadPython /\ op.file.lines = <<Line.assign, Line.open>> => Len(op.ret) = 1

\* C19: in a python file a line exec(code_str) gets no issue from any checker.
C19_PythonExecNotFlagged ==
    ReadPython =>
        \A k \in DOMAIN op.ret : op.ret[k].line_number \notin LinesThatAre(Line.exec)

\* ---- C20 --------------------------------------------------------------------

\* How often x occurs in the list.
Occurrences(list, x) == Cardinality({k \in DOMAIN list : list[k] = x})

\* C20: the keys of the graph are the resolved paths of the given files;
\* every path in an imports or imported_by list is a key; and B occurs in
\* graph[A].imports as often as A occurs in graph[B].imported_by.
C20_GraphClosedAndSymmetric ==
    op.kind = "graph" =>
        LET g == op.graph
        IN  /\ DOMAIN g = {resolve(op.files[k]) : k \in DOMAIN op.files}
            /\ \A a \in DOMAIN g :
                   /\ \A k \in DOMAIN g[a].imports : g[a].imports[k] \in DOMAIN g
                   /\ \A k \in DOMAIN g[a].imported_by : g[a].imported_by[k] \in DOMAIN g
            /\ \A a \in DOMAIN g : \A b \in DOMAIN g :
                   Occurrences(g[a].imports, b) = Occurrences(g[b].imported_by, a)

\* C20 witness: a.py imports b twice and zlib, which is not in the batch;
\* b is twice in its imports and zlib is not.
C20_Witness ==
    /\ op.kind = "graph"
    /\ \E a \in DOMAIN op.graph : \E b \in DOMAIN op.graph :
           /\ a # b
           /\ Occurrences(op.graph[a].imports, b) = 2
           /\ Occurrences(op.graph[b].imported_by, a) = 2
           /\ \E k \in DOMAIN op.imports_of[a] : op.imports_of[a][k] = "zlib"

\* ---- the two circular-dependency detectors ------------------------------------
\* app/services/relationship_detector.py and cross_platform_checker/main_checker.py

MaxEdges == 3

\* The paths of the graphs, in ascending order of Python's str comparison.
GraphPaths == <<"/a.py", "/b.py", "/c.py">>

\* The position of a path in that order: x < y in Python iff Rank(x) < Rank(y).
Rank(x) == CHOOSE k \in DOMAIN GraphPaths : GraphPaths[k] = x

\* list.index(x): the least index that holds x.
IndexOf(list, x) ==
    CHOOSE k \in DOMAIN list : list[k] = x /\ \A j \in 1..(k - 1) : list[j] # x

\* min(range(len(cycle) - 1), key=lambda i: cycle[i]), counted from 1: the
\* first index whose path is the least.
MinIndex(cycle) ==
    CHOOSE k \in 1..(Len(cycle) - 1) :
        /\ \A j \in 1..(Len(cycle) - 1) : Rank(cycle[k]) <= Rank(cycle[j])
        /\ \A j \in 1..(k - 1) : Rank(cycle[j]) > Rank(cycle[k])

\* The cycle from its least path on, as the HTTP layer builds it:
\* cycle[cycle_start_idx:-1] + [cycle[cycle_start_idx]].
normalized_cycle(cycle) ==
    SubSeq(cycle, MinIndex(cycle), Len(cycle) - 1) \o <<cycle[MinIndex(cycle)]>>

\* A dict of the detectors: its keys in insertion order and the imports list
\* of each key.
Graph(order, imports) == [order |-> order, imports |-> imports]

Keys(graph) == {graph.order[k] : k \in DOMAIN graph.order}

\* The state of one detection: circular, visited, rec_stack.
Detection(circular, visited, rec_stack) ==
    [circular |-> circular, visited |-> visited, rec_stack |-> rec_stack]

\* "if x not in circular: circular.append(x)"
AppendNew(circular, x) == IF Includes(circular, x) THEN circular ELSE Append(circular, x)

RECURSIVE http_dfs(_, _, _, _)
RECURSIVE http_neighbors(_, _, _, _, _)

\* dfs(node, path) of the HTTP layer; st is the detection before the call, the
\* value is the detection after it.
http_dfs(graph, node, path, st) ==
    IF node \in st.rec_stack
    THEN LET cycle == SubSeq(path, IndexOf(path, node), Len(path)) \o <<node>>
         IN  [st EXCEPT !.circular = AppendNew(@, normalized_cycle(cycle))]
    ELSE IF node \in st.visited
    THEN st
    ELSE LET Leave(after) == [after EXCEPT !.rec_stack = @ \ {node}]
         IN  Leave(http_neighbors(graph, node, path, 1,
                       [st EXCEPT !.visited = @ \cup {node},
                                  !.rec_stack = @ \cup {node}]))

\* "for neighbor in graph[node].get('imports', [])", from the k-th on.
http_neighbors(graph, node, path, k, st) ==
    IF node \notin Keys(graph) \/ k > Len(graph.imports[node])
    THEN st
    ELSE LET neighbor == graph.imports[node][k]
         IN  http_neighbors(graph, node, path, k + 1,
                 IF neighbor \in Keys(graph)
                 THEN http_dfs(graph, neighbor, Append(path, node), st)
                 ELSE st)

RECURSIVE http_roots(_, _, _)

\* "for node in graph: if node not in visited: dfs(node, [])", from the k-th key.
http_roots(graph, k, st) ==
    IF k > Len(graph.order)
    THEN st
    ELSE http_roots(graph, k + 1,
             IF graph.order[k] \notin st.visited
             THEN http_dfs(graph, graph.order[k], <<>>, st)
             ELSE st)

\* relationship_detector._detect_circular_dependencies(graph)
http_detect_circular_dependencies(graph) ==
    http_roots(graph, 1, Detection(<<>>, {}, {})).circular

RECURSIVE dfs(_, _, _, _)
RECURSIVE neighbors(_, _, _, _, _)

\* dfs(node, path) of the orchestrator: the cycle is recorded as it is found.
dfs(graph, node, path, st) ==
    IF node \in st.rec_stack
    THEN LET cycle == SubSeq(path, IndexOf(path, node), Len(path)) \o <<node>>
         IN  [st EXCEPT !.circular = AppendNew(@, cycle)]
    ELSE IF node \in st.visited
    THEN st
    ELSE LET Leave(after) == [after EXCEPT !.rec_stack = @ \ {node}]
         IN  Leave(neighbors(graph, node, path, 1,
                       [st EXCEPT !.visited = @ \cup {node},
                                  !.rec_stack = @ \cup {node}]))

neighbors(graph, node, path, k, st) ==
    IF node \notin Keys(graph) \/ k > Len(graph.imports[node])
    THEN st
    ELSE LET neighbor == graph.imports[node][k]
         IN  neighbors(graph, node, path, k + 1,
                 IF neighbor \in Keys(graph)
                 THEN dfs(graph, neighbor, Append(path, node), st)
                 ELSE st)

RECURSIVE roots(_, _, _)

roots(graph, k, st) ==
    IF k > Len(graph.order)
    THEN st
    ELSE roots(graph, k + 1,
             IF graph.order[k] \notin st.visited
             THEN dfs(graph, graph.order[k], <<>>, st)
             ELSE st)

\* CrossPlatformChecker._detect_circular_dependencies(graph)
_detect_circular_dependencies(graph) ==
    roots(graph, 1, Detection(<<>>, {}, {})).circular

\* The graphs: the keys are any paths in any order, each key imports up to
\* MaxEdges paths (itself, the same path twice and paths that are no key
\* included), MaxEdges imports in all.
PathSet == {GraphPaths[k] : k \in DOMAIN GraphPaths}

Orders == {s \in SeqsUpTo(PathSet, Len(GraphPaths)) :
              \A i \in DOMAIN s : \A j \in DOMAIN s : i # j => s[i] # s[j]}

RECURSIVE TotalLen(_, _)
TotalLen(imports, keys) ==
    IF keys = {} THEN 0
    ELSE LET key == CHOOSE x \in keys : TRUE
         IN  Len(imports[key]) + TotalLen(imports, keys \ {key})

ImportsOver(keys) ==
    {f \in [keys -> SeqsUpTo(PathSet, MaxEdges)] : TotalLen(f, keys) <= MaxEdges}

CycleInputs ==
    UNION {[kind : {"ask_cycles"},
            graph : {Graph(order, f) : f \in ImportsOver({order[k] : k \in DOMAIN order})},
            http : {None}, orchestrator : {None}] : order \in Orders}

\* One call of the HTTP layer's _detect_circular_dependencies(graph).
HttpDetectCall ==
    /\ op.kind \in {"ask_cycles", "cycles"}
    /\ op.http = None
    /\ op' = [op EXCEPT !.kind = "cycles",
                        !.http = Some(http_detect_circular_dependencies(op.graph))]
    /\ UNCHANGED <<now, envVars, statusVars, reviewVars, uploadVars>>

\* One call of the orchestrator's _detect_circular_dependencies(graph).
OrchestratorDetectCall ==
    /\ op.kind \in {"ask_cycles", "cycles"}
    /\ op.orchestrator = None
    /\ op' = [op EXCEPT !.kind = "cycles",
                        !.orchestrator = Some(_detect_circular_dependencies(op.graph))]
    /\ UNCHANGED <<now, envVars, statusVars, reviewVars, uploadVars>>

\* ---- CrossPlatformChecker.detect_relationships --------------------------------

\* dict[key] = value on a dict kept as its keys in insertion order and the
\* value of each key: a new key goes last, a present key keeps its place.
OrderPut(order, key) == IF Includes(order, key) THEN order ELSE Append(order, key)

\* The first loop: imports_by_file, over the paths that exist, from the k-th on.
RECURSIVE imports_by_file(_, _, _, _)
imports_by_file(file_paths, disk, k, found) ==
    IF k > Len(file_paths) THEN found
    ELSE imports_by_file(file_paths, disk, k + 1,
             IF disk[file_paths[k]].exists
             THEN [order |-> OrderPut(found.order, file_paths[k]),
                   imports |-> DictPut(found.imports, file_paths[k],
                                       disk[file_paths[k]].imports)]
             ELSE found)

\* The graph and the missing list: graph[key] = {"imports": [], "imported_by": []}
NewEntry(built, key) ==
    [built EXCEPT !.order = OrderPut(@, key),
                  !.imports = DictPut(@, key, <<>>),
                  !.imported_by = DictPut(@, key, <<>>)]

\* One import of file_path, lines 143-153.
OneImport(built, file_path, imp, file_set) ==
    LET resolved == _resolve_import(imp, file_path, file_set)
        Record(with_key, resolved_str) ==
            [with_key EXCEPT !.imported_by[resolved_str] = Append(@, file_path)]
        Resolved(appended, resolved_str) ==
            Record(IF Includes(appended.order, resolved_str) THEN appended
                   ELSE NewEntry(appended, resolved_str), resolved_str)
    IN  IF resolved # None
        THEN Resolved([built EXCEPT !.imports[file_path] = Append(@, resolved[1])],
                      resolved[1])
        ELSE [built EXCEPT !.missing = Append(@, <<file_path, imp>>)]

RECURSIVE ImportsOf(_, _, _, _, _)
\* "for imp in imports", from the j-th on.
ImportsOf(built, file_path, imports, j, file_set) ==
    IF j > Len(imports) THEN built
    ELSE ImportsOf(OneImport(built, file_path, imports[j], file_set),
                   file_path, imports, j + 1, file_set)

RECURSIVE FilesOf(_, _, _, _)
\* "for file_path, imports in imports_by_file.items()", from the k-th on.
FilesOf(built, by_file, k, file_set) ==
    IF k > Len(by_file.order) THEN built
    ELSE FilesOf(ImportsOf(NewEntry(built, by_file.order[k]), by_file.order[k],
                           by_file.imports[by_file.order[k]], 1, file_set),
                 by_file, k + 1, file_set)

\* detect_relationships(file_paths); disk says which paths exist and what
\* _extract_imports reads from each.
detect_relationships(file_paths, disk) ==
    LET file_set == {file_paths[k] : k \in DOMAIN file_paths}
        Result(by_file, built) ==
            [imports |-> by_file.imports,
             missing |-> built.missing,
             circular |-> _detect_circular_dependencies(Graph(built.order, built.imports)),
             graph |-> [order |-> built.order, imports |-> built.imports,
                        imported_by |-> built.imported_by]]
        Build(by_file) ==
            Result(by_file,
                   FilesOf([order |-> <<>>, imports |-> EmptyDict,
                            imported_by |-> EmptyDict, missing |-> <<>>],
                           by_file, 1, file_set))
    IN  Build(imports_by_file(file_paths, disk, 1,
                              [order |-> <<>>, imports |-> EmptyDict]))

\* The batches: up to MaxFiles paths out of /a.py and /b.py, each existing or
\* not, a.py importing up to MaxImports of b and zlib (no file), b.py importing
\* a up to MaxImports times.
RelationshipInputs ==
    [kind : {"ask_relationships"},
     file_paths : SeqsUpTo({<<"/", "a", ".py">>, <<"/", "b", ".py">>}, MaxFiles),
     disk : {(<<"/", "a", ".py">> :> [exists |-> ea, imports |-> ia])
                 @@ (<<"/", "b", ".py">> :> [exists |-> eb, imports |-> ib]) :
                ea \in BOOLEAN, eb \in BOOLEAN,
                ia \in SeqsUpTo({"b", "zlib"}, MaxImports),
                ib \in SeqsUpTo({"a"}, MaxImports)}]

\* One call of detect_relationships(file_paths).
DetectRelationshipsCall ==
    /\ op.kind = "ask_relationships"
    /\ op' = [kind |-> "relationships", file_paths |-> op.file_paths, disk |-> op.disk,
              ret |-> detect_relationships(op.file_paths, op.disk)]
    /\ UNCHANGED <<now, envVars, statusVars, reviewVars, uploadVars>>

InitGraphs ==
    /\ now = 0
    /\ openai_installed = FALSE
    /\ env_api_key = None
    /\ status_cache = None
    /\ cache_timestamp = 0
    /\ last_probe = None
    /\ InitReviewIdle
    /\ InitUploadIdle
    /\ op \in CycleInputs \cup RelationshipInputs

NextGraphs ==
    \/ HttpDetectCall
    \/ OrchestratorDetectCall
    \/ DetectRelationshipsCall

SpecGraphs == InitGraphs /\ [][NextGraphs]_vars

\* ---- C21 --------------------------------------------------------------------

\* a imports b, both keys of the graph.
Edge(graph, a, b) ==
    a \in Keys(graph) /\ b \in Keys(graph) /\ Includes(graph.imports[a], b)

RECURSIVE ReachedFrom(_, _)
\* The keys reached from the set by one or more imports.
ReachedFrom(graph, set) ==
    LET next == {b \in Keys(graph) : \E a \in set : Edge(graph, a, b)}
        more == next \cup {b \in Keys(graph) : \E a \in next : Edge(graph, a, b)}
    IN  IF more \subseteq set THEN set \cup more ELSE ReachedFrom(graph, set \cup more)

\* The key lies on a directed cycle of the graph.
OnCycle(graph, a) ==
    \E b \in Keys(graph) : Edge(graph, a, b) /\ (b = a \/ a \in ReachedFrom(graph, {b}))

\* The list is a closed chain of import edges.
ClosedChain(graph, c) ==
    /\ Len(c) >= 2
    /\ c[1] = c[Len(c)]
    /\ \A i \in 1..(Len(c) - 1) : Edge(graph, c[i], c[i + 1])

\* The list starts at the least of its paths.
StartsAtLeast(c) == \A i \in DOMAIN c : Rank(c[1]) <= Rank(c[i])

\* Every reported cycle holds only files that lie on a directed cycle.
C21_OnlyFilesOnCycles ==
    op.kind = "cycles" /\ op.http # None =>
        \A k \in DOMAIN op.http[1] : \A i \in DOMAIN op.http[1][k] :
            OnCycle(op.graph, op.http[1][k][i])

\* No two reported cycles are equal, and a cycle is reported whenever the
\* graph has one.
C21_DistinctAndComplete ==
    op.kind = "cycles" /\ op.http # None =>
        /\ \A k \in DOMAIN op.http[1] : \A j \in DOMAIN op.http[1] :
               k # j => op.http[1][k] # op.http[1][j]
        /\ (\E a \in Keys(op.graph) : OnCycle(op.graph, a)) => op.http[1] # <<>>

\* C21: every cycle reported by the HTTP layer's detector is a closed chain
\* of import edges that starts and ends at its least path, no two reported
\* cycles are equal, a file on no directed cycle is in no reported cycle, and
\* a cycle is reported whenever the graph has a directed cycle.
C21_HttpCycles ==
    /\ op.kind = "cycles" /\ op.http # None =>
           \A k \in DOMAIN op.http[1] :
               ClosedChain(op.graph, op.http[1][k]) /\ StartsAtLeast(op.http[1][k])
    /\ C21_OnlyFilesOnCycles
    /\ C21_DistinctAndComplete

\* ---- C30 --------------------------------------------------------------------

\* The closed chain rotated to start and end at its least path.
RotateToLeast(cycle) ==
    SubSeq(cycle, MinIndex(cycle), Len(cycle) - 1)
        \o SubSeq(cycle, 1, MinIndex(cycle) - 1) \o <<cycle[MinIndex(cycle)]>>

\* C30: on the same graph, the cycles reported by the orchestrator's detector,
\* each rotated to start at its least path, are the list reported by the HTTP
\* layer's detector, cycle for cycle.
C30_SameCyclesUpToRotation ==
    op.kind = "cycles" /\ op.http # None /\ op.orchestrator # None =>
        /\ Len(op.orchestrator[1]) = Len(op.http[1])
        /\ [k \in DOMAIN op.orchestrator[1] |-> RotateToLeast(op.orchestrator[1][k])]
               = op.http[1]

\* ---- C28 --------------------------------------------------------------------

\* C28: in the graph of detect_relationships, when an import of an analysed
\* file A resolves to a file B of the given paths, B is in graph[A].imports
\* and A is in graph[B].imported_by, whatever the order of the paths; an
\* import that resolves to nothing is in missing and adds nothing to the graph.
C28_ResolvedImportsBothWays ==
    op.kind = "relationships" =>
        LET g == op.ret.graph
            file_set == {op.file_paths[k] : k \in DOMAIN op.file_paths}
        IN  \A a \in file_set : op.disk[a].exists =>
                \A j \in DOMAIN op.disk[a].imports :
                    LET imp == op.disk[a].imports[j]
                        resolved == _resolve_import(imp, a, file_set)
                    IN  IF resolved # None
                        THEN /\ Includes(g.order, a) /\ Includes(g.order, resolved[1])
                             /\ Includes(g.imports[a], resolved[1])
                             /\ Includes(g.imported_by[resolved[1]], a)
                        ELSE /\ Includes(op.ret.missing, <<a, imp>>)
                             /\ Len(g.imports[a]) < Len(op.disk[a].imports)

\* The part of it about unresolved imports alone: each is in missing, and the
\* imports lists of the graph hold only paths of the given set.
C28_UnresolvedGoToMissing ==
    op.kind = "relationships" =>
        LET g == op.ret.graph
            file_set == {op.file_paths[k] : k \in DOMAIN op.file_paths}
        IN  /\ \A a \in file_set : op.disk[a].exists =>
                   \A j \in DOMAIN op.disk[a].imports :
                       _resolve_import(op.disk[a].imports[j], a, file_set) = None =>
                           Includes(op.ret.missing, <<a, op.disk[a].imports[j]>>)
            /\ \A k \in DOMAIN g.order :
                   /\ g.order[k] \in file_set
                   /\ \A j \in DOMAIN g.imports[g.order[k]] :
                          g.imports[g.order[k]][j] \in file_set

\* ---- the folder walk (app/services/file_extractor.py) -------------------------

SOURCE_EXTENSIONS ==
    {".py", ".js", ".ts", ".jsx", ".tsx", ".cpp", ".cxx", ".cc", ".c", ".h", ".hpp",
     ".java", ".go", ".rs", ".rb", ".php", ".swift", ".kt", ".scala", ".clj"}

EXCLUDE_DIRS ==
    {".git", ".svn", ".hg", "__pycache__", "node_modules", ".venv", "venv", "env",
     ".env", "dist", "build", ".pytest_cache", ".mypy_cache", ".tox", ".idea", ".vscode"}

\* A path is the sequence of its parts; a part is <<stem, suffix>>, its name
\* the two put together.
PartName(part) == part[1] \o part[2]

\* The parts of the walks, in ascending order of their names in Python's str
\* comparison.
WalkParts ==
    << <<"/", "">>, <<"B", ".PY">>, <<"a", ".py">>, <<"build", "">>, <<"home", "">>,
       <<"lib", ".py">>, <<"notes", ".txt">>, <<"proj", "">>, <<"src", "">> >>

PartRank(part) == CHOOSE k \in DOMAIN WalkParts : WalkParts[k] = part

\* str.lower() of a suffix.
Lower(suffix) == IF suffix = ".PY" THEN ".py" ELSE suffix

\* p < q for two paths: Path compares the tuples of parts.
PathLess(p, q) ==
    \E k \in 1..(Len(p) + 1) :
        /\ k <= Len(q)
        /\ \A j \in 1..(k - 1) : j <= Len(p) /\ p[j] = q[j]
        /\ (k = Len(p) + 1 \/ PartRank(p[k]) < PartRank(q[k]))

RECURSIVE sorted(_)
\* sorted() of a list of different paths, given as their set.
sorted(paths) ==
    IF paths = {} THEN <<>>
    ELSE LET least == CHOOSE p \in paths : \A q \in paths \ {p} : PathLess(p, q)
         IN  <<least>> \o sorted(paths \ {least})

\* What rglob("*") finds below folder_path: every entry of the tree, by its
\* path from the root, and whether it is a regular file.
Entry(rel, is_file) == [rel |-> rel, is_file |-> is_file]

\* _extract_from_folder(folder_path) on a tree without links.
_extract_from_folder(folder_path, tree) ==
    sorted({folder_path \o e.rel : e \in
               {e \in tree :
                   /\ e.is_file
                   /\ ~\E k \in DOMAIN (folder_path \o e.rel) :
                          PartName((folder_path \o e.rel)[k]) \in EXCLUDE_DIRS
                   /\ Lower(e.rel[Len(e.rel)][2]) \in SOURCE_EXTENSIONS}})

\* The folders walked: a root with plain names, a root named as an excluded
\* directory, and a root below such a directory.
WalkRoots ==
    { << <<"/", "">>, <<"home", "">>, <<"proj", "">> >>,
      << <<"/", "">>, <<"home", "">>, <<"build", "">> >>,
      << <<"/", "">>, <<"build", "">>, <<"proj", "">> >> }

\* The trees: any of three files in the root, in src and in src/build, the
\* directories that hold them, and possibly a directory named lib.py.
WalkDirs == { <<>>, << <<"src", "">> >>, << <<"src", "">>, <<"build", "">> >> }

WalkFiles ==
    {Entry(Append(d, n), TRUE) :
        d \in WalkDirs, n \in { <<"a", ".py">>, <<"B", ".PY">>, <<"notes", ".txt">> }}

DirsOf(files) ==
    UNION {{Entry(SubSeq(e.rel, 1, k), FALSE) : k \in 1..(Len(e.rel) - 1)} : e \in files}

WalkInputs ==
    [kind : {"ask_walk"},
     folder_path : WalkRoots,
     tree : {files \cup DirsOf(files) \cup extra :
                files \in SUBSET WalkFiles,
                extra \in {{}, {Entry(<< <<"lib", ".py">> >>, FALSE)}}}]

\* One call of _extract_from_folder(folder_path).
ExtractFromFolderCall ==
    /\ op.kind = "ask_walk"
    /\ op' = [kind |-> "walk", folder_path |-> op.folder_path, tree |-> op.tree,
              ret |-> _extract_from_folder(op.folder_path, op.tree)]
    /\ UNCHANGED <<now, envVars, statusVars, reviewVars, uploadVars>>

\* ---- where the uploads are written (app/services/file_extractor.py) ------------
\* A filename is the sequence of its pieces: "/" and "\" are the one-character
\* separators, the other pieces hold no separator.  The server is a POSIX
\* system: "/" alone separates the components of a path.

MaxPieces == 4

Backslash == "\\"

\* rel.lstrip("/\\")
lstrip_separators(name) ==
    IF \A k \in DOMAIN name : name[k] \in {"/", Backslash} THEN <<>>
    ELSE SubSeq(name,
                CHOOSE k \in DOMAIN name :
                    /\ name[k] \notin {"/", Backslash}
                    /\ \A j \in 1..(k - 1) : name[j] \in {"/", Backslash},
                Len(name))

RECURSIVE Components(_, _)
\* Path(name).parts without the root: the pieces between two "/" put
\* together, the empty components left out; held is the component begun.
Components(name, held) ==
    IF name = <<>> THEN (IF held = "" THEN <<>> ELSE <<held>>)
    ELSE IF Head(name) = "/"
    THEN (IF held = "" THEN <<>> ELSE <<held>>) \o Components(Tail(name), "")
    ELSE Components(Tail(name), held \o Head(name))

\* temp_dir / name: a name that starts with "/" is absolute and replaces
\* temp_dir.
JoinPath(temp_dir, name) ==
    IF name # <<>> /\ Head(name) = "/" THEN Components(name, "")
    ELSE temp_dir \o Components(name, "")

RECURSIVE Normal(_, _)
\* The place the system reaches by a path from the root: ".." steps back to
\* the directory above, and stays at the root.
Normal(path, at) ==
    IF path = <<>> THEN at
    ELSE Normal(Tail(path),
                IF Head(path) = ".."
                THEN (IF at = <<>> THEN <<>> ELSE SubSeq(at, 1, Len(at) - 1))
                ELSE Append(at, Head(path)))

\* The disk: the directories and the regular files, by their places.
Disk(dirs, files) == [dirs |-> dirs, files |-> files]

\* What one step leaves: the disk and whether it raised.
Wrote(disk, raised) == [disk |-> disk, raised |-> raised]

\* Every directory on the way of the path exists.
Reachable(disk, path) ==
    \A k \in 0..(Len(path) - 1) : Normal(SubSeq(path, 1, k), <<>>) \in disk.dirs

\* dest.parent.mkdir(parents=True, exist_ok=True): the directories of the way
\* are made; it raises if a regular file is on the way.
mkdir_parents(disk, parent) ==
    LET way == {Normal(SubSeq(parent, 1, k), <<>>) : k \in 0..Len(parent)}
    IN  IF way \cap disk.files # {} THEN Wrote(disk, TRUE)
        ELSE Wrote(Disk(disk.dirs \cup way, disk.files), FALSE)

\* open(dest, "wb") and the writes: the file at the place of dest is made or
\* overwritten; it raises if the way does not exist or the place is a directory.
open_wb(disk, dest) ==
    IF ~Reachable(disk, dest) \/ Normal(dest, <<>>) \in disk.dirs
    THEN Wrote(disk, TRUE)
    ELSE Wrote(Disk(disk.dirs, disk.files \cup {Normal(dest, <<>>)}), FALSE)

\* One part of build_temp_tree_from_uploads, lines 123-134.
write_upload(disk, temp_dir, filename) ==
    LET rel == IF filename = None \/ filename[1] = <<>> THEN <<"uploaded">> ELSE filename[1]
        Write(dest, made) == IF made.raised THEN made ELSE open_wb(made.disk, dest)
        Make(dest) == Write(dest, mkdir_parents(disk, SubSeq(dest, 1, Len(dest) - 1)))
    IN  Make(temp_dir \o Components(lstrip_separators(rel), ""))

RECURSIVE write_uploads(_, _, _)
\* "for upload in files", until one raises.
write_uploads(disk, temp_dir, files) ==
    IF files = <<>> THEN Wrote(disk, FALSE)
    ELSE LET Rest(one) == IF one.raised THEN one
                          ELSE write_uploads(one.disk, temp_dir, Tail(files))
         IN  Rest(write_upload(disk, temp_dir, Head(files)))

\* tempfile.mkdtemp(prefix=...) below /tmp, on a disk that holds /tmp alone.
TempRoot == <<"tmp">>
StartDisk == Disk({<<>>, TempRoot}, {})
mkdtemp(prefix) == Append(TempRoot, prefix \o "0")
AfterMkdtemp(prefix) == Disk(StartDisk.dirs \cup {mkdtemp(prefix)}, {})

\* The disk after build_temp_tree_from_uploads(files).
build_temp_tree_writes(files) ==
    write_uploads(AfterMkdtemp("compat_upload_"), mkdtemp("compat_upload_"), files)

\* The disk after the save of _extract_from_uploaded_zip, lines 78-84:
\* temp_zip = temp_dir / upload_file.filename; a filename of None raises.
uploaded_zip_writes(filename) ==
    IF filename = None THEN Wrote(AfterMkdtemp("compat_checker_"), TRUE)
    ELSE open_wb(AfterMkdtemp("compat_checker_"),
                 JoinPath(mkdtemp("compat_checker_"), filename[1]))

\* The filenames a client sends: None, or up to MaxPieces pieces.
Filenames ==
    {None} \cup {Some(n) : n \in SeqsUpTo({"/", Backslash, "..", "sub", "a.py"}, MaxPieces)}

\* The uploads: one part of any filename, or that part after a part named
\* a.py, sub/a.py or sub.
UploadInputs ==
    [kind : {"ask_tree"},
     files : {<<f>> : f \in Filenames} \cup
             {<<g, f>> : g \in {Some(<<"a.py">>), Some(<<"sub", "/", "a.py">>), Some(<<"sub">>)},
                         f \in Filenames}]

ZipUploadInputs == [kind : {"ask_zip"}, filename : Filenames]

\* One call of build_temp_tree_from_uploads(files).
BuildTempTreeCall ==
    /\ op.kind = "ask_tree"
    /\ op' = [kind |-> "tree", files |-> op.files, temp_dir |-> mkdtemp("compat_upload_"),
              ret |-> build_temp_tree_writes(op.files)]
    /\ UNCHANGED <<now, envVars, statusVars, reviewVars, uploadVars>>

\* The save of one call of _extract_from_uploaded_zip(upload_file).
SaveUploadedZipCall ==
    /\ op.kind = "ask_zip"
    /\ op' = [kind |-> "zip", filename |-> op.filename,
              temp_dir |-> mkdtemp("compat_checker_"),
              ret |-> uploaded_zip_writes(op.filename)]
    /\ UNCHANGED <<now, envVars, statusVars, reviewVars, uploadVars>>

InitFiles ==
    /\ now = 0
    /\ openai_installed = FALSE
    /\ env_api_key = None
    /\ status_cache = None
    /\ cache_timestamp = 0
    /\ last_probe = None
    /\ InitReviewIdle
    /\ InitUploadIdle
    /\ op \in WalkInputs \cup UploadInputs \cup ZipUploadInputs

NextFiles ==
    \/ ExtractFromFolderCall
    \/ BuildTempTreeCall
    \/ SaveUploadedZipCall

SpecFiles == InitFiles /\ [][NextFiles]_vars

\* ---- C22 --------------------------------------------------------------------

\* The files the walk is to return: the regular files below the root with a
\* recognised extension and no excluded directory between the root and the file.
Wanted(folder_path, tree) ==
    {folder_path \o e.rel : e \in
        {e \in tree :
            /\ e.is_file
            /\ Lower(e.rel[Len(e.rel)][2]) \in SOURCE_EXTENSIONS
            /\ \A k \in 1..(Len(e.rel) - 1) : PartName(e.rel[k]) \notin EXCLUDE_DIRS}}

\* The list is in ascending order, without duplicates.
Ascending(list) ==
    \A i \in DOMAIN list : \A j \in DOMAIN list : i < j => PathLess(list[i], list[j])

\* The walk returns an ascending list of files that are wanted.
C22_SortedAndWanted ==
    op.kind = "walk" =>
        /\ Ascending(op.ret)
        /\ {op.ret[k] : k \in DOMAIN op.ret} \subseteq Wanted(op.folder_path, op.tree)

\* C22: the folder walk returns, ascending and without duplicates, exactly
\* the regular files below the root that have a recognised extension and no
\* excluded directory between the root and the file, whatever the names of
\* the root and of its ancestors.
C22_WalkReturnsExactlyWanted ==
    op.kind = "walk" =>
        /\ Ascending(op.ret)
        /\ {op.ret[k] : k \in DOMAIN op.ret} = Wanted(op.folder_path, op.tree)

\* ---- C23 --------------------------------------------------------------------

\* The place is below the directory.
Inside(dir, place) == Len(place) > Len(dir) /\ SubSeq(place, 1, Len(dir)) = dir

\* C23: every file that build_temp_tree_from_uploads or the save of the
\* uploaded zip makes or overwrites is inside the temp directory just made,
\* whatever the filenames the client sent.
C23_WritesStayInTempDir ==
    op.kind \in {"tree", "zip"} =>
        \A place \in op.ret.disk.files : Inside(op.temp_dir, place)

\* A filename without ".." whose leading separators are stripped is written
\* inside the temp directory.
C23_NoDotDotStaysInside ==
    op.kind = "tree" /\ (\A k \in DOMAIN op.files :
                            op.files[k] = None \/ ~Includes(op.files[k][1], "..")) =>
        \A place \in op.ret.disk.files : Inside(op.temp_dir, place)

\* ---- _safe_report_basename (app/routes/review.py) -----------------------------
\* A text is the sequence of its characters.  "a" stands for an ASCII letter,
\* "1" for an ASCII digit, "é" for a letter that is not ASCII, "!" for a
\* sign that is neither a word character nor one of the others.

MaxLabelPieces == 3
MaxStem == 80

Text_report == <<"r", "e", "p", "o", "r", "t">>
Text_compatibility_report ==
    <<"c", "o", "m", "p", "a", "t", "i", "b", "i", "l", "i", "t", "y", "_">> \o Text_report

\* The ASCII letters of the texts.
Letters ==
    {"a"} \cup ({Text_compatibility_report[k] : k \in DOMAIN Text_compatibility_report} \ {"_"})

\* \w of a str pattern: letters and digits of any script, and "_".
IsWordChar(c) == c \in Letters \cup {"1", "é", "_"}

RECURSIVE LStripOf(_, _)
\* str.lstrip(chars)
LStripOf(s, chars) ==
    IF s = <<>> THEN <<>>
    ELSE IF Head(s) \in chars THEN LStripOf(Tail(s), chars) ELSE s

RECURSIVE RStripOf(_, _)
\* str.rstrip(chars)
RStripOf(s, chars) ==
    IF s = <<>> THEN <<>>
    ELSE IF s[Len(s)] \in chars THEN RStripOf(SubSeq(s, 1, Len(s) - 1), chars) ELSE s

\* str.strip(chars); str.strip() is StripOf(s, {" "}).
StripOf(s, chars) == RStripOf(LStripOf(s, chars), chars)

\* PurePath(s).name: the text after the last "/", the "/" at the end and
\* the "." components left out; "" if there is none.
PathName(s) ==
    LET Cut(t) ==
            IF \E k \in DOMAIN t : t[k] = "/"
            THEN SubSeq(t, 1 + CHOOSE k \in DOMAIN t :
                                   t[k] = "/" /\ \A j \in (k + 1)..Len(t) : t[j] # "/",
                        Len(t))
            ELSE t
        RECURSIVE Last(_)
        \* the last component that is not ".", from the end
        Last(t) ==
            LET trimmed == RStripOf(t, {"/"})
            IN  IF trimmed = <<>> THEN <<>>
                ELSE IF Cut(trimmed) = <<".">>
                THEN Last(SubSeq(trimmed, 1, Len(trimmed) - 1))
                ELSE Cut(trimmed)
    IN  Last(s)

\* PurePath.stem of a name: the name up to its last ".", unless that "." is
\* its first or its last character.
Stem(name) ==
    IF \E k \in DOMAIN name : name[k] = "."
    THEN LET i == CHOOSE k \in DOMAIN name :
                      name[k] = "." /\ \A j \in (k + 1)..Len(name) : name[j] # "."
         IN  IF 1 < i /\ i < Len(name) THEN SubSeq(name, 1, i - 1) ELSE name
    ELSE name

\* x or y
Or(x, y) == IF x # <<>> THEN x ELSE y

\* re.sub(r"[^\w\-]", "_", stem)
Sanitized(stem) ==
    [k \in DOMAIN stem |-> IF IsWordChar(stem[k]) \/ stem[k] = "-" THEN stem[k] ELSE "_"]

\* s[:n]
Prefix(s, n) == SubSeq(s, 1, IF Len(s) < n THEN Len(s) ELSE n)

\* _safe_report_basename(label)
_safe_report_basename(label) ==
    IF label = None \/ StripOf(label[1], {" "}) = <<>>
    THEN Text_compatibility_report
    ELSE LET Safe(stem) ==
                 Or(Or(StripOf(Prefix(Sanitized(stem), MaxStem), {"_"}), Text_report),
                    Text_compatibility_report)
             OfName(name) == Safe(Or(Stem(name), name))
             OfPath(p) == OfName(Or(Or(PathName(p), Stem(PathName(p))), Text_report))
         IN  OfPath(StripOf([k \in DOMAIN label[1] |->
                                IF label[1][k] = Backslash THEN "/" ELSE label[1][k]],
                            {" "}))

\* n times the character.
Run(c, n) == [k \in 1..n |-> c]

\* The labels: None, or up to MaxLabelPieces pieces, each one character or a
\* run of MaxStem letters or underscores.
LabelPieces ==
    {<<c>> : c \in {"a", "1", "é", "_", "-", "!", " ", ".", "/", Backslash}}
        \cup {Run("a", MaxStem), Run("_", MaxStem)}

RECURSIVE Joined(_)
Joined(pieces) == IF pieces = <<>> THEN <<>> ELSE Head(pieces) \o Joined(Tail(pieces))

BasenameInputs ==
    [kind : {"ask_basename"},
     label : {None} \cup {Some(Joined(ps)) : ps \in SeqsUpTo(LabelPieces, MaxLabelPieces)}]

\* One call of _safe_report_basename(label).
SafeReportBasenameCall ==
    /\ op.kind = "ask_basename"
    /\ op' = [kind |-> "basename", label |-> op.label,
              ret |-> _safe_report_basename(op.label)]
    /\ UNCHANGED <<now, envVars, statusVars, reviewVars, uploadVars>>

InitBasename ==
    /\ now = 0
    /\ openai_installed = FALSE
    /\ env_api_key = None
    /\ status_cache = None
    /\ cache_timestamp = 0
    /\ last_probe = None
    /\ InitReviewIdle
    /\ InitUploadIdle
    /\ op \in BasenameInputs

NextBasename == SafeReportBasenameCall

SpecBasename == InitBasename /\ [][NextBasename]_vars

\* ---- C24 --------------------------------------------------------------------

\* The characters of [A-Za-z0-9_-].
IsSafeChar(c) == c \in Letters \cup {"1", "_", "-"}

\* The result is never empty and never longer than 80 characters; a blank
\* label gives "compatibility_report", a label without a letter, a digit or
\* a hyphen gives "report".
C24_NonEmptyAtMost80 ==
    op.kind = "basename" =>
        /\ op.ret # <<>>
        /\ Len(op.ret) <= 80
        /\ (op.label = None \/ \A k \in DOMAIN op.label[1] : op.label[1][k] = " ") =>
               op.ret = Text_compatibility_report
        /\ (/\ op.label # None
            /\ \E k \in DOMAIN op.label[1] : op.label[1][k] # " "
            /\ \A k \in DOMAIN op.label[1] :
                   op.label[1][k] \in {"_", "!", " ", ".", "/", Backslash}) =>
               op.ret = Text_report

\* C24: _safe_report_basename returns a non-empty text of at most 80
\* characters, all of them in [A-Za-z0-9_-]; a blank label gives
\* "compatibility_report" and a label whose sanitized stem is empty "report".
C24_SafeBasename ==
    /\ C24_NonEmptyAtMost80
    /\ op.kind = "basename" => \A k \in DOMAIN op.ret : IsSafeChar(op.ret[k])

-----------------------------------------------------------------------------
(* The rules-only requests: POST /check and POST /review/results *)

\* POST /check that also asks the AI service for fixes, as POST /analyze does.
check_with_ai(req, files) ==
    LET rc == run_check(req, files)
    IN  [status |-> rc.status,
         body |-> IF rc.status = 200 THEN Some([issues |-> rc.issues[1]]) ELSE None,
         calls |-> [NoIngestCalls EXCEPT !.check = rc.checks,
                        !.ai_calls = IF rc.status = 200 THEN 1 ELSE 0]]

\* POST /check: run_check and nothing else; CheckResponse carries the issues.
check(req, files) ==
    LET rc == run_check(req, files)
    IN  [status |-> rc.status,
         body |-> IF rc.status = 200 THEN Some([issues |-> rc.issues[1]]) ELSE None,
         calls |-> [NoIngestCalls EXCEPT !.check = rc.checks]]

\* One POST /check request; the JSON response renders no page.
CheckPost ==
    \E req \in RunCheckRequests :
        LET res == check(req, fs)
        IN  /\ op' = [kind |-> "check", time |-> now, req |-> req, page |-> "json",
                      status |-> res.status, report_id |-> None, body |-> res.body,
                      created |-> None, calls |-> res.calls]
            /\ UNCHANGED <<now, envVars, statusVars, reviewVars, uploadVars>>

\* The requests with a rules-only path, on a disk with or without the file
\* POST /check is asked about.
InitRules ==
    /\ now = 0
    /\ openai_installed = TRUE
    /\ env_api_key \in { k \in FlowEnvKeys : k.chars = 40 }
    /\ status_cache = None
    /\ cache_timestamp = 0
    /\ last_probe = None
    /\ fs \in [AbsPaths -> {None} \cup {Some(c) : c \in FileContents}]
    /\ results_cache = EmptyDict
    /\ last_done = EmptyDict
    /\ InitUploadIdle
    /\ op = NoOp

NextRules ==
    \/ CheckPost
    \/ ReviewResultsPost

SpecRules == InitRules /\ [][NextRules]_vars

\* The last request was rules-only: POST /check, or POST /review/results
\* with a mode other than "ai".
RulesOnly ==
    \/ op.kind = "check"
    \/ op.kind = "review_results_post" /\ op.req.mode # "ai"

\* The response carries no AI suggestions, generated tests or group insights.
NoAiContent ==
    /\ op.page = "results" =>
           op.body[1].ai_suggestions = None /\ op.body[1].generated_tests = None
    /\ op.page = "multi_results" =>
           /\ op.body[1].cross_file_insights = None
           /\ op.body[1].ai_fix_suggestions = None
    /\ (op.kind = "check" /\ op.body # None) => DOMAIN op.body[1] = {"issues"}

\* C25: a rules-only request (POST /check, or POST /review/results with a
\* mode other than "ai", single-file or multi-file) calls no AIService
\* operation, sends no AIService request to the backend, and its results carry
\* no AI suggestions, generated tests or group insights; the one request to
\* the backend it can cause is the live status probe of the banner, and only
\* when it ends on the form page with an error.
C25_RulesOnlyNoAIService ==
    RulesOnly =>
        /\ op.calls.ai_calls = 0
        /\ op.calls.backend = 0
        /\ NoAiContent
        /\ op.page # "form_error" => op.calls.probes = 0

\* C25 as stated: a rules-only request never touches the AI backend, neither
\* through an AIService operation nor in any other way.
C25_NeverTouchesBackend ==
    RulesOnly =>
        /\ op.calls.ai_calls = 0
        /\ op.calls.backend = 0
        /\ op.calls.probes = 0
        /\ NoAiContent

\* C25 witnesses: rules-only uploads reached the single-file and the
\* multi-file results page, a POST /check was answered with issues, and a
\* rules-only upload that ended on the error form probed the backend.
C25_Witness ==
    /\ op.kind = "review_results_post"
    /\ op.req.mode = "rules"
    /\ op.page = "multi_results"
    /\ op.calls.check = 1
    /\ op.calls.ai_calls = 0

C25_WitnessSingle ==
    /\ op.kind = "review_results_post"
    /\ op.req.mode = "AI"
    /\ op.page = "results"
    /\ op.body[1].ai_suggestions = None

C25_WitnessCheck ==
    /\ op.kind = "check"
    /\ op.status = 200
    /\ op.calls.check = 1

C25_WitnessProbe ==
    /\ RulesOnly
    /\ op.page = "form_error"
    /\ op.calls.probes = 1

-----------------------------------------------------------------------------
(* The pruner's decision for a variable_path candidate *)

\* The last call pruned one variable_path candidate of a Python file.
DecidedVariablePath ==
    /\ op.kind = "prune"
    /\ op.language = "python"
    /\ op.candidates = <<PathCandidate>>

\* The kind of the variable's latest classified literal assignment, "none" if
\* it has none.
AssignedKind(lines, var) ==
    LET assignment_map == _build_assignment_map_python(lines)
    IN  IF var \in DOMAIN assignment_map THEN assignment_map[var][3] ELSE "none"

\* The usages recorded for the variable.
RecordedUsages(lines, var) ==
    LET usage_map == _build_usage_map_python(lines)
    IN  {usage_map[var][k] : k \in DOMAIN usage_map[var]}

\* The reference table: TRUE to promote, FALSE to drop.
ReferenceDecision(kind, usages) ==
    IF kind \in {"env_syntax", "platform_var"} THEN FALSE
    ELSE IF usages = {} THEN TRUE
    ELSE IF "file_io" \in usages THEN TRUE
    ELSE IF usages = {"display"} THEN FALSE
    ELSE TRUE

\* The variable is passed to print and to no file call and no getenv.
OnlyDisplayed(lines, var) ==
    /\ \E i \in DOMAIN lines : lines[i] = <<"print(", var, ")">>
    /\ \A i \in DOMAIN lines :
           \A j \in 1..(Len(lines[i]) - 1) :
               lines[i][j + 1] = var => lines[i][j] \notin {"open(", "getenv("}

\* C26: the decision for a variable_path candidate equals the reference table
\* applied to the kind of the variable's latest classified assignment and to
\* its recorded usages.
C26_DecisionFollowsTable ==
    DecidedVariablePath =>
        (op.ret # <<>>) = ReferenceDecision(AssignedKind(op.lines, "path"),
                                            RecordedUsages(op.lines, "path"))

\* C26: the usages recorded for a variable are file_io and env_api only, so
\* no file reaches the display-only row of the table.
C26_NoDisplayUsageRecorded ==
    DecidedVariablePath => RecordedUsages(op.lines, "path") \subseteq {"file_io", "env_api"}

\* C26: there are files for which the display-only drop is taken: the
\* candidate of a variable that holds a path and is only printed is dropped.
C26_DisplayOnlyDropTaken ==
    (DecidedVariablePath
        /\ AssignedKind(op.lines, "path") \in {"path", "none"}
        /\ OnlyDisplayed(op.lines, "path"))
        => op.ret = <<>>

\* The drop by the assignment rule and the promotion by a file_io usage are
\* both taken.
C26_AssignmentDropTaken ==
    /\ DecidedVariablePath
    /\ AssignedKind(op.lines, "path") = "env_syntax"
    /\ op.ret = <<>>

C26_FileIoPromotionTaken ==
    /\ DecidedVariablePath
    /\ RecordedUsages(op.lines, "path") = {"file_io", "env_api"}
    /\ op.ret # <<>>

-----------------------------------------------------------------------------
(* Requests that are in _analyze_file at the same time *)

\* The number of requests in flight.  The handlers are plain functions, so
\* each request runs on a thread of the server's pool.
MaxRequests == 2

Requests == 1..MaxRequests

\* A request that has entered _analyze_file(file_path): where it stands, the
\* tuple it read from the cache, its local variables (issues, code, lang,
\* ai_suggestions, generated_tests), what it returned, the time it stamped
\* on its cache entry and what it called.
Entered(file_path) ==
    [pc |-> "check", file_path |-> file_path, cached |-> None, locals |-> None,
     status |-> 0, ret |-> None, wrote |-> None, calls |-> NoCalls]

\* Line 121 returns the cache entry of the path in place of the locals.
analyze_return_cached(locals, cache, file_path) == cache[file_path].result

\* Line 121: return issues, code, lang, ai_suggestions, generated_tests
analyze_return(locals, cache, file_path) == locals

\* The caches the requests find: empty, or holding what one earlier request
\* for the path wrote at time 0.
EarlierCaches ==
    {EmptyDict} \cup
    { AnalyzeFresh(PathA, EmptyDict, 0, (PathA :> Some(c)), TRUE, k, r, r).cache :
          c \in FileContents, k \in { q \in FlowEnvKeys : q.chars = 40 },
          r \in FlowReplies }

InitRace ==
    /\ now = 0
    /\ openai_installed = TRUE
    /\ env_api_key \in { k \in FlowEnvKeys : k.chars = 40 }
    /\ status_cache = None
    /\ cache_timestamp = 0
    /\ last_probe = None
    /\ fs \in [AbsPaths -> {Some(c) : c \in FileContents}]
    /\ results_cache \in EarlierCaches
    /\ last_done = EmptyDict
    /\ InitUploadIdle
    /\ op = [kind |-> "race", threads |-> [t \in Requests |-> Entered(PathA)],
             writers |-> <<>>]

\* Request t moves on to th.
Moves(t, th) == op' = [op EXCEPT !.threads[t] = th]

\* Lines 102-104: the tuple of the path is read from the cache, if there is
\* one.
CacheLookup(t) ==
    LET th == op.threads[t]
    IN  /\ th.pc = "check"
        /\ IF th.file_path \in DOMAIN results_cache
           THEN Moves(t, [th EXCEPT !.pc = "age",
                                    !.cached = Some(results_cache[th.file_path])])
           ELSE Moves(t, [th EXCEPT !.pc = "analyze"])
        /\ UNCHANGED <<now, envVars, statusVars, reviewVars, uploadVars>>

\* Lines 105-107: the tuple read is returned when it is younger than
\* CACHE_TTL on the clock read now.
CacheAge(t) ==
    LET th == op.threads[t]
    IN  /\ th.pc = "age"
        /\ IF now - th.cached[1].time < CACHE_TTL
           THEN Moves(t, [th EXCEPT !.pc = "done", !.status = 200,
                                    !.ret = Some(th.cached[1].result)])
           ELSE Moves(t, [th EXCEPT !.pc = "analyze"])
        /\ UNCHANGED <<now, envVars, statusVars, reviewVars, uploadVars>>

\* Lines 109-115: 404 for a file that is gone, else run_check.
RunCheckStep(t) ==
    LET th == op.threads[t]
        rc == run_check(FilePathRequest(th.file_path), fs)
    IN  /\ th.pc = "analyze"
        /\ IF rc.status # 200
           THEN Moves(t, [th EXCEPT !.pc = "done", !.status = rc.status])
           ELSE Moves(t, [th EXCEPT !.pc = "ai",
                              !.locals = Some([issues |-> rc.issues[1], code |-> rc.code,
                                               lang |-> rc.lang, ai_suggestions |-> None,
                                               generated_tests |-> None]),
                              !.calls = [NoCalls EXCEPT !.run_check = 1]])
        /\ UNCHANGED <<now, envVars, statusVars, reviewVars, uploadVars>>

\* Lines 116-117: suggest_fixes and generate_tests, the backend answering r1
\* and r2.
AiStep(t) ==
    LET th == op.threads[t]
    IN  /\ th.pc = "ai"
        /\ \E r1 \in FlowReplies, r2 \in FlowReplies :
               LET ai == AiTexts(th.locals[1].code, th.locals[1].lang,
                                 openai_installed, env_api_key, r1, r2)
               IN  Moves(t, [th EXCEPT !.pc = "write",
                                 !.locals = Some([th.locals[1] EXCEPT
                                                !.ai_suggestions = ai.ai_suggestions,
                                                !.generated_tests = ai.generated_tests]),
                                 !.calls = ai.calls])
        /\ UNCHANGED <<now, envVars, statusVars, reviewVars, uploadVars>>

\* Line 120: one assignment puts the whole tuple, stamped with the clock, in
\* the cache.
CacheWrite(t) ==
    LET th == op.threads[t]
    IN  /\ th.pc = "write"
        /\ results_cache' = DictPut(results_cache, th.file_path,
                                    [result |-> th.locals[1], time |-> now])
        /\ op' = [op EXCEPT !.threads[t] = [th EXCEPT !.pc = "return",
                                                      !.wrote = Some(now)],
                            !.writers = Append(@, t)]
        /\ UNCHANGED <<now, envVars, statusVars, fs, last_done, uploadVars>>

\* Line 121.
ReturnStep(t) ==
    LET th == op.threads[t]
    IN  /\ th.pc = "return"
        /\ Moves(t, [th EXCEPT !.pc = "done", !.status = 200,
                         !.ret = Some(analyze_return(th.locals[1], results_cache,
                                                     th.file_path))])
        /\ UNCHANGED <<now, envVars, statusVars, reviewVars, uploadVars>>

\* The clock moves on while requests are in flight.
ClockMoves ==
    /\ \E d \in ReviewTicks : now + d <= MaxReviewTime /\ now' = now + d
    /\ UNCHANGED <<envVars, statusVars, reviewVars, uploadVars, op>>

\* The file is written over or removed while requests are in flight.
FileChanges ==
    /\ \E v \in {None} \cup {Some(c) : c \in FileContents} :
           /\ fs[PathA] # v
           /\ fs' = [fs EXCEPT ![PathA] = v]
    /\ UNCHANGED <<now, envVars, statusVars, results_cache, last_done, uploadVars, op>>

NextRace ==
    \/ ClockMoves
    \/ FileChanges
    \/ \E t \in Requests : CacheLookup(t)
    \/ \E t \in Requests : CacheAge(t)
    \/ \E t \in Requests : RunCheckStep(t)
    \/ \E t \in Requests : AiStep(t)
    \/ \E t \in Requests : CacheWrite(t)
    \/ \E t \in Requests : ReturnStep(t)

SpecRace == InitRace /\ [][NextRace]_vars

\* Every request has returned.
AllReturned == \A t \in Requests : op.threads[t].pc = "done"

\* Request t ran the analysis and the AI calls and wrote its tuple.
RanAnalysis(t) ==
    /\ op.threads[t].calls.run_check = 1
    /\ op.threads[t].calls.suggest_fixes = 1
    /\ op.threads[t].wrote # None

\* The request whose cache write came last.
LastWriter == op.writers[Len(op.writers)]

\* C27: when the requests for the same path all ran the analysis and the AI
\* calls and have returned, each returned the complete tuple it computed
\* itself, every one of them wrote the cache once, and the cache holds for
\* the path the whole tuple of the request that wrote last, with the time
\* that request stamped on it.
C27_LastWriterWins ==
    (AllReturned /\ \A t \in Requests : RanAnalysis(t)) =>
        /\ \A t \in Requests :
               /\ op.threads[t].status = 200
               /\ op.threads[t].ret = op.threads[t].locals
        /\ Len(op.writers) = MaxRequests
        /\ \A t \in Requests : \E k \in DOMAIN op.writers : op.writers[k] = t
        /\ results_cache[PathA] = [result |-> op.threads[LastWriter].locals[1],
                                   time |-> op.threads[LastWriter].wrote[1]]

\* C27: at no time does the cache hold a tuple put together from the fields
\* of more than one request: its entry is the one found at the start or the
\* whole tuple of the last writer.
C27_NeverAMixture ==
    IF op.writers = <<>> THEN results_cache \in EarlierCaches
    ELSE results_cache[PathA] = [result |-> op.threads[LastWriter].locals[1],
                                 time |-> op.threads[LastWriter].wrote[1]]

\* C27 witness: both requests missed the cache, ran the analysis and got
\* different answers from the backend; request 2 wrote first, request 1 last,
\* and the cache holds the tuple of request 1 while request 2 returned its own.
C27_Witness ==
    /\ AllReturned
    /\ \A t \in Requests : RanAnalysis(t) /\ op.threads[t].calls.backend > 0
    /\ op.writers = <<2, 1>>
    /\ op.threads[1].locals # op.threads[2].locals
    /\ op.threads[1].locals[1].issues # op.threads[2].locals[1].issues
    /\ results_cache[PathA].result = op.threads[1].locals[1]
    /\ op.threads[2].ret = op.threads[2].locals

\* C27 witness for an expired entry: the requests found a tuple 300 s old.
C27_WitnessExpired ==
    /\ AllReturned
    /\ \A t \in Requests : RanAnalysis(t) /\ op.threads[t].cached # None
    /\ op.threads[1].cached[1].time = 0

-----------------------------------------------------------------------------
(* Multi-file uploads that store their reports at the same time *)

\* A report of an earlier upload, stored at time t.
EarlierReport(t) == [text |-> "earlier", time |-> t, label |-> "proj"]

\* The report caches the uploads find at time 400: reports 0 and 1 of
\* earlier uploads, stored at 0 (older than CACHE_TTL) and at 200, or neither.
EarlierReportCaches ==
    { EmptyDict, (0 :> EarlierReport(0)), (0 :> EarlierReport(200)),
      (0 :> EarlierReport(0)) @@ (1 :> EarlierReport(0)),
      (0 :> EarlierReport(0)) @@ (1 :> EarlierReport(200)) }

\* list(d) of a dict whose keys were inserted in increasing order.
RECURSIVE KeyList(_)
KeyList(keys) ==
    IF keys = {} THEN <<>>
    ELSE LET least == CHOOSE k \in keys : \A q \in keys : k <= q
         IN  <<least>> \o KeyList(keys \ {least})

\* An upload whose analysis has succeeded and whose report text is
\* formatted (line 431): the id and the time it draws, the ids its eviction
\* loop has yet to visit, the page it returns.
Analysed(t) ==
    [pc |-> "store", temp_dir |-> <<"compat_upload_", t>>, report_id |-> None,
     time |-> None, todo |-> <<>>, page |-> "none"]

InitEvict ==
    /\ now = 400
    /\ openai_installed = TRUE
    /\ env_api_key \in { k \in FlowEnvKeys : k.chars = 40 }
    /\ status_cache = None
    /\ cache_timestamp = 0
    /\ last_probe = None
    /\ InitReviewIdle
    /\ multi_report_cache \in EarlierReportCaches
    /\ rendered = <<>>
    /\ next_report_id = Cardinality(DOMAIN multi_report_cache)
    /\ tmp_dirs = { Analysed(t).temp_dir : t \in Requests }
    /\ op = [kind |-> "uploads", threads |-> [t \in Requests |-> Analysed(t)]]

\* Lines 432-434: a new id, the clock, and the report goes into the cache.
StoreReport(t) ==
    LET th == op.threads[t]
    IN  /\ th.pc = "store"
        /\ multi_report_cache' =
               DictPut(multi_report_cache, next_report_id,
                       [text |-> <<"report", t>>, time |-> now, label |-> "proj"])
        /\ next_report_id' = next_report_id + 1
        /\ Moves(t, [th EXCEPT !.pc = "list", !.report_id = Some(next_report_id),
                               !.time = Some(now)])
        /\ UNCHANGED <<now, envVars, statusVars, reviewVars, rendered, tmp_dirs>>

\* Line 436: list(_multi_report_cache), the ids in the cache at this moment.
ListReports(t) ==
    LET th == op.threads[t]
    IN  /\ th.pc = "list"
        /\ Moves(t, [th EXCEPT !.pc = "test",
                               !.todo = KeyList(DOMAIN multi_report_cache)])
        /\ UNCHANGED <<now, envVars, statusVars, reviewVars, uploadVars>>

\* The loop goes on to the next id, or ends.
NextReport(th) ==
    [th EXCEPT !.pc = IF Len(th.todo) > 1 THEN "test" ELSE "render",
               !.todo = Tail(th.todo)]

\* Line 437: _multi_report_cache[rid][1] is read, a KeyError if the id is
\* not in the cache any more, and compared with the time of the request.
TestReport(t) ==
    LET th == op.threads[t]
        rid == Head(th.todo)
    IN  /\ th.pc = "test"
        /\ IF rid \notin DOMAIN multi_report_cache
           THEN Moves(t, [th EXCEPT !.pc = "except"])
           ELSE IF th.time[1] - multi_report_cache[rid].time > CACHE_TTL
           THEN Moves(t, [th EXCEPT !.pc = "del"])
           ELSE Moves(t, NextReport(th))
        /\ UNCHANGED <<now, envVars, statusVars, reviewVars, uploadVars>>

\* Line 438: del _multi_report_cache[rid], a KeyError if the id is not in
\* the cache any more.
DeleteReport(t) ==
    LET th == op.threads[t]
        rid == Head(th.todo)
    IN  /\ th.pc = "del"
        /\ IF rid \notin DOMAIN multi_report_cache
           THEN /\ Moves(t, [th EXCEPT !.pc = "except"])
                /\ UNCHANGED multi_report_cache
           ELSE /\ multi_report_cache' = DictDrop(multi_report_cache, {rid})
                /\ Moves(t, NextReport(th))
        /\ UNCHANGED <<now, envVars, statusVars, reviewVars, rendered, next_report_id,
                       tmp_dirs>>

\* Lines 440-449 and 452-455: the results page with the report id, then the
\* temp directory is removed.
RenderResults(t) ==
    LET th == op.threads[t]
    IN  /\ th.pc = "render"
        /\ rendered' = DictPut(rendered, th.report_id[1],
                               [text |-> <<"report", t>>, time |-> th.time[1]])
        /\ tmp_dirs' = cleanup_temp_files(th.temp_dir, tmp_dirs)
        /\ Moves(t, [th EXCEPT !.pc = "done", !.page = "multi_results"])
        /\ UNCHANGED <<now, envVars, statusVars, reviewVars, multi_report_cache,
                       next_report_id>>

\* Lines 450-455: except Exception returns the form with the error and the
\* AI status banner, then the temp directory is removed.
RenderErrorForm(t) ==
    LET th == op.threads[t]
    IN  /\ th.pc = "except"
        /\ \E po \in FlowProbeOutcomes : BannerEffect(Banner(po))
        /\ tmp_dirs' = cleanup_temp_files(th.temp_dir, tmp_dirs)
        /\ Moves(t, [th EXCEPT !.pc = "done", !.page = "form_error"])
        /\ UNCHANGED <<now, envVars, reviewVars, multi_report_cache, rendered,
                       next_report_id>>

NextEvict ==
    \/ \E t \in Requests : StoreReport(t)
    \/ \E t \in Requests : ListReports(t)
    \/ \E t \in Requests : TestReport(t)
    \/ \E t \in Requests : DeleteReport(t)
    \/ \E t \in Requests : RenderResults(t)
    \/ \E t \in Requests : RenderErrorForm(t)

SpecEvict == InitEvict /\ [][NextEvict]_vars

\* C29: every upload whose analysis succeeded returns its results page and
\* leaves its own report id in the cache, however the eviction loops of the
\* uploads interleave.
C29_SuccessfulUploadsGetResults ==
    \A t \in Requests :
        op.threads[t].pc = "done" =>
            /\ op.threads[t].page = "multi_results"
            /\ op.threads[t].report_id[1] \in DOMAIN multi_report_cache

\* C29: the report an upload stored stays in the cache while the uploads
\* run, also when the upload ends on the error form.
C29_OwnReportStays ==
    \A t \in Requests :
        op.threads[t].report_id # None =>
            op.threads[t].report_id[1] \in DOMAIN multi_report_cache

\* C29: an upload ends on the error form only after another upload deleted an
\* expired entry its own loop was still to visit.
C29_ErrorOnlyAfterForeignDelete ==
    \A t \in Requests :
        op.threads[t].pc = "except" =>
            /\ op.threads[t].todo # <<>>
            /\ Head(op.threads[t].todo) \notin DOMAIN multi_report_cache
            /\ Head(op.threads[t].todo) # op.threads[t].report_id[1]

\* Both uploads end on their results pages and the expired entry is gone.
C29_BothGetResults ==
    /\ \A t \in Requests : op.threads[t].pc = "done" /\ op.threads[t].page = "multi_results"
    /\ 0 \notin DOMAIN multi_report_cache
====
